---- MODULE Spec2Model ----
(***************************************************************************)
(* Model of the Asana task manager server (src/server.py): the workspace   *)
(* user cache (_fetch_workspace_users), assignee resolution                *)
(* (resolve_assignee) and the task-locating step of the task tools.        *)
(*                                                                         *)
(* Strings are sequences of one-character strings, so that lower(),        *)
(* strip(), split() and the substring test are computed, not assumed.      *)
(* A Python dict is a sequence of <<key, value>> pairs in insertion order. *)
(***************************************************************************)
EXTENDS Integers, Sequences, FiniteSets, TLC

(* ------------------------------ strings ------------------------------- *)

\* A text as the sequence of its characters
Chars(s) == [i \in 1..Len(s) |-> SubSeq(s, i, i)]

UpperChars ==
    <<"A", "B", "C", "D", "E", "F", "G", "H", "I", "J", "K", "L", "M",
      "N", "O", "P", "Q", "R", "S", "T", "U", "V", "W", "X", "Y", "Z">>
LowerChars ==
    <<"a", "b", "c", "d", "e", "f", "g", "h", "i", "j", "k", "l", "m",
      "n", "o", "p", "q", "r", "s", "t", "u", "v", "w", "x", "y", "z">>
DigitChars == {"0", "1", "2", "3", "4", "5", "6", "7", "8", "9"}

\* The lower-case letter of each upper-case letter
LowerOf ==
    [c \in {UpperChars[i] : i \in 1..Len(UpperChars)} |->
        LowerChars[CHOOSE i \in 1..Len(UpperChars) : UpperChars[i] = c]]

\* str.lower() on one character
LowerChar(c) == IF c \in DOMAIN LowerOf THEN LowerOf[c] ELSE c

\* str.lower()
Lower(s) == [i \in 1..Len(s) |-> LowerChar(s[i])]

IsSpace(c) == c = " "

\* str.strip(): drop leading and trailing whitespace
Strip(s) ==
    IF \A i \in 1..Len(s) : IsSpace(s[i]) THEN <<>>
    ELSE LET lo == CHOOSE i \in 1..Len(s) :
                       ~IsSpace(s[i]) /\ \A j \in 1..(i - 1) : IsSpace(s[j])
             hi == CHOOSE i \in 1..Len(s) :
                       ~IsSpace(s[i]) /\ \A j \in (i + 1)..Len(s) : IsSpace(s[j])
         IN  SubSeq(s, lo, hi)

\* str.split() without argument: the maximal runs of non-whitespace
RECURSIVE SplitFrom(_, _, _)
SplitFrom(s, i, word) ==
    IF i > Len(s) THEN (IF word = <<>> THEN <<>> ELSE <<word>>)
    ELSE IF IsSpace(s[i])
         THEN (IF word = <<>> THEN <<>> ELSE <<word>>) \o SplitFrom(s, i + 1, <<>>)
         ELSE SplitFrom(s, i + 1, Append(word, s[i]))

Split(s) == SplitFrom(s, 1, <<>>)

\* a in b (substring test)
Contains(a, b) ==
    \E k \in 0..(Len(b) - Len(a)) : SubSeq(b, k + 1, k + Len(a)) = a

\* str.isdigit(): non-empty and digits only
IsDigit(s) == s # <<>> /\ \A i \in 1..Len(s) : s[i] \in DigitChars

(* ------------------------------- dicts -------------------------------- *)

DictKeys(d) == {d[i][1] : i \in 1..Len(d)}
DictHas(d, k) == \E i \in 1..Len(d) : d[i][1] = k
DictGet(d, k) == d[CHOOSE i \in 1..Len(d) : d[i][1] = k][2]

\* Variant of DictSet: an existing key keeps its first value
DictSet_KeepFirst(d, k, v) == IF DictHas(d, k) THEN d ELSE Append(d, <<k, v>>)

\* d[k] = v: an existing key keeps its position, a new key is appended
DictSet(d, k, v) ==
    IF DictHas(d, k)
    THEN [i \in 1..Len(d) |-> IF d[i][1] = k THEN <<k, v>> ELSE d[i]]
    ELSE Append(d, <<k, v>>)

(* ------------------------ the upstream directory ---------------------- *)

\* A field the API sent as null: calling .strip() on it raises AttributeError
None == <<"<None>">>

Str_1 == <<"1">>
Str_2 == <<"2">>
Str_3 == <<"3">>
Str_AlBo == <<"A", "l", " ", "B", "o">>
Str_alba == <<"a", "l", " ", "b", "a">>
Str_ALBO == <<"A", "L", " ", "B", "O">>
Str_Cy == <<"C", "y">>
Str_CyDoBo == <<" ", "C", "y", " ", "D", "o", " ", " ", "B", "o">>
Gid11 == [i \in 1..11 |-> "1"]
Str_Gid11pad == <<" ">> \o Gid11 \o <<" ">>
Str_ax == <<"a", "@", "x">>
Str_AX == <<"A", "@", "X">>
Str_cx == <<"c", "@", "x">>
Str_dx == <<"d", "@", "x">>
Str_Gid11Bo == Gid11 \o <<" ", "B", "o">>

User(gid, name, email) == [isdict |-> TRUE, gid |-> gid, name |-> name, email |-> email]

\* Entries the member list of get_users_for_workspace may hold
UserAlBo == User(Str_1, Str_AlBo, Str_ax)
UserAlBa == User(Str_2, Str_alba, Str_AX)
UserALBO == User(Gid11, Str_ALBO, <<>>)
UserCyDoBo == User(Str_3, Str_CyDoBo, Str_cx)
UserLongName == User(Str_3, Str_Gid11pad, <<>>)
UserDigitFirst == User(Str_2, Str_Gid11Bo, Str_dx)
UserNoGid == User(<<>>, Str_Cy, Str_cx)
UserNullEmail == User(Str_2, Str_Cy, None)
NotADict == [isdict |-> FALSE, gid |-> <<>>, name |-> <<>>, email |-> <<>>]

Members ==
    {UserAlBo, UserAlBa, UserALBO, UserCyDoBo, UserLongName, UserDigitFirst, UserNoGid,
     UserNullEmail, NotADict}

\* Longest member list the model fetches
MaxUsers == 2

UserLists == UNION {[1..n -> Members] : n \in 0..MaxUsers}

(* ------------------- _fetch_workspace_users: rebuild ------------------ *)

\* lines 194-196: .strip() of a null field raises
UserRaises(user) ==
    user.isdict /\ (user.name = None \/ user.email = None \/ user.gid = None)

\* Variant of AddUser: the initial is taken from the second part of the name
AddUser_SecondPart(cache, user) ==
    IF ~user.isdict THEN cache
    ELSE
      LET name == Strip(user.name)
          email == Strip(user.email)
          gid == Strip(user.gid)
          name_parts == Split(name)
          first_last_initial == Lower(name_parts[1] \o <<" ">> \o <<name_parts[2][1]>>)
          c1 == IF name # <<>> THEN DictSet(cache, Lower(name), gid) ELSE cache
          c2 == IF name # <<>> /\ Len(name_parts) >= 2
                THEN DictSet(DictSet(c1, first_last_initial, gid), Lower(name_parts[1]), gid)
                ELSE c1
          c3 == IF email # <<>> THEN DictSet(c2, Lower(email), gid) ELSE c2
      IN  IF gid = <<>> THEN cache ELSE DictSet(c3, gid, gid)

\* lines 191-221, one iteration of the loop for a user that does not raise
AddUser(cache, user) ==
    IF ~user.isdict THEN cache
    ELSE
      LET name == Strip(user.name)
          email == Strip(user.email)
          gid == Strip(user.gid)
          name_parts == Split(name)
          first_last_initial ==
              Lower(name_parts[1] \o <<" ">> \o <<name_parts[Len(name_parts)][1]>>)
          c1 == IF name # <<>> THEN DictSet(cache, Lower(name), gid) ELSE cache
          c2 == IF name # <<>> /\ Len(name_parts) >= 2
                THEN DictSet(DictSet(c1, first_last_initial, gid), Lower(name_parts[1]), gid)
                ELSE c1
          c3 == IF email # <<>> THEN DictSet(c2, Lower(email), gid) ELSE c2
      IN  IF gid = <<>> THEN cache ELSE DictSet(c3, gid, gid)

\* lines 190-221: the loop from user i on; stops at the first user that raises
RECURSIVE RebuildFrom(_, _, _)
RebuildFrom(cache, users, i) ==
    IF i > Len(users) THEN [cache |-> cache, raised |-> FALSE]
    ELSE IF UserRaises(users[i]) THEN [cache |-> cache, raised |-> TRUE]
    ELSE RebuildFrom(AddUser(cache, users[i]), users, i + 1)

\* Variant of RebuildStart: the rebuild goes on in the dict in use
RebuildStart_Keep(cache) == cache

\* line 189: the rebuild starts from a new empty dict
RebuildStart(cache) == <<>>

\* lines 189-221
Rebuild(cache, users) == RebuildFrom(RebuildStart(cache), users, 1)

(* ---------------------- _fetch_workspace_users ------------------------ *)

\* _cache_duration = 3600 (seconds)
_cache_duration == 3600

\* _cache_timestamp before any successful refresh, and after invalidation
NoTimestamp == -1

\* What the two upstream calls of one refresh answer:
\*   me    - users_api.get_user: "ok", "raise" or "noworkspaces"
\*   fetch - users_api.get_users_for_workspace: "ok" or "raise"
\*   users - the member list it returns
UpMeRaises == [me |-> "raise", fetch |-> "none", users |-> <<>>]
UpNoWorkspaces == [me |-> "noworkspaces", fetch |-> "none", users |-> <<>>]
UpFetchRaises == [me |-> "ok", fetch |-> "raise", users |-> <<>>]
UpUsers(users) == [me |-> "ok", fetch |-> "ok", users |-> users]
NoUp == [me |-> "none", fetch |-> "none", users |-> <<>>]

\* The answers a refresh may meet while the directory holds the list users
Ups(users) == {UpMeRaises, UpNoWorkspaces, UpFetchRaises, UpUsers(users)}

\* Variant of CacheValid: a snapshot of exactly _cache_duration is still served
CacheValid_Le(cache, ts, current_time) ==
    /\ ts # NoTimestamp /\ ts # 0
    /\ (current_time - ts) <= _cache_duration
    /\ cache # <<>>

\* Variant of CacheValid: the age test is inverted
CacheValid_Inverted(cache, ts, current_time) ==
    /\ ts # NoTimestamp /\ ts # 0
    /\ (current_time - ts) > _cache_duration
    /\ cache # <<>>

\* line 155: the cache is served as it is
CacheValid(cache, ts, current_time) ==
    /\ ts # NoTimestamp /\ ts # 0
    /\ (current_time - ts) < _cache_duration
    /\ cache # <<>>

\* lines 227-231: what the except clause returns
ExceptReturn(cache) == IF cache # <<>> THEN cache ELSE <<>>

\* lines 146-231. users_api is set at import (line 107), so lines 158-160 never run.
\* The result: the new _user_cache and _cache_timestamp, the returned dict, the
\* upstream answers consumed (NoUp when the cache was served) and whether the
\* refresh ran to line 225.
FetchWorkspaceUsers(cache, ts, current_time, up) ==
    IF CacheValid(cache, ts, current_time)
    THEN [cache |-> cache, ts |-> ts, ret |-> cache, up |-> NoUp, ok |-> FALSE]
    ELSE IF up.me = "raise"
    THEN [cache |-> cache, ts |-> ts, ret |-> ExceptReturn(cache), up |-> up, ok |-> FALSE]
    ELSE IF up.me = "noworkspaces"
    THEN [cache |-> cache, ts |-> ts, ret |-> <<>>, up |-> up, ok |-> FALSE]
    ELSE IF up.fetch = "raise"
    THEN [cache |-> cache, ts |-> ts, ret |-> ExceptReturn(cache), up |-> up, ok |-> FALSE]
    ELSE LET r == Rebuild(cache, up.users)
         IN  IF r.raised
             THEN [cache |-> r.cache, ts |-> ts, ret |-> ExceptReturn(r.cache),
                   up |-> up, ok |-> FALSE]
             ELSE [cache |-> r.cache, ts |-> current_time, ret |-> r.cache,
                   up |-> up, ok |-> TRUE]

(* --------------------------- resolve_assignee ------------------------- *)

\* Variant of LooksLikeGid: one more digit is asked for
LooksLikeGid_Longer(s) == IsDigit(s) /\ Len(s) > 11

\* lines 249, 475: the reference looks like a GID
LooksLikeGid(s) == IsDigit(s) /\ Len(s) > 10

\* Variant of FuzzyFrom: the first key that contains the reference or is contained
\* in it stays the best match
RECURSIVE FuzzyFrom_KeepFirst(_, _, _, _)
FuzzyFrom_KeepFirst(user_cache, assignee_lower, i, best) ==
    IF i > Len(user_cache) THEN best
    ELSE
      LET cached_key == user_cache[i][1]
          gid == user_cache[i][2]
          better(num, den) ==
              IF best.match = None /\ num > 0
              THEN [match |-> gid, num |-> num, den |-> den]
              ELSE best
          next ==
              IF cached_key = gid THEN best
              ELSE IF Contains(assignee_lower, cached_key)
                   THEN better(Len(assignee_lower), Len(cached_key))
              ELSE IF Contains(cached_key, assignee_lower)
                   THEN better(Len(cached_key), Len(assignee_lower))
              ELSE best
      IN  FuzzyFrom_KeepFirst(user_cache, assignee_lower, i + 1, next)

\* Variant of FuzzyFrom: a key that scores as much as the best one replaces it
RECURSIVE FuzzyFrom_KeepLast(_, _, _, _)
FuzzyFrom_KeepLast(user_cache, assignee_lower, i, best) ==
    IF i > Len(user_cache) THEN best
    ELSE
      LET cached_key == user_cache[i][1]
          gid == user_cache[i][2]
          better(num, den) ==
              IF num * best.den >= best.num * den
              THEN [match |-> gid, num |-> num, den |-> den]
              ELSE best
          next ==
              IF cached_key = gid THEN best
              ELSE IF Contains(assignee_lower, cached_key)
                   THEN better(Len(assignee_lower), Len(cached_key))
              ELSE IF Contains(cached_key, assignee_lower)
                   THEN better(Len(cached_key), Len(assignee_lower))
              ELSE best
      IN  FuzzyFrom_KeepLast(user_cache, assignee_lower, i + 1, next)

\* lines 260-279: the loop over user_cache.items() from item i on. A score is the
\* fraction num/den; best_score starts at 0 (0/1) and fractions are compared by
\* cross-multiplication.
RECURSIVE FuzzyFrom(_, _, _, _)
FuzzyFrom(user_cache, assignee_lower, i, best) ==
    IF i > Len(user_cache) THEN best
    ELSE
      LET cached_key == user_cache[i][1]
          gid == user_cache[i][2]
          better(num, den) ==
              IF num * best.den > best.num * den
              THEN [match |-> gid, num |-> num, den |-> den]
              ELSE best
          next ==
              IF cached_key = gid THEN best
              ELSE IF Contains(assignee_lower, cached_key)
                   THEN better(Len(assignee_lower), Len(cached_key))
              ELSE IF Contains(cached_key, assignee_lower)
                   THEN better(Len(cached_key), Len(assignee_lower))
              ELSE best
      IN  FuzzyFrom(user_cache, assignee_lower, i + 1, next)

\* Variant of ScoreRaises: both scores divide by the length of the reference
ScoreRaises_ByReference(assignee_lower, cached_key) ==
    /\ Contains(assignee_lower, cached_key) \/ Contains(cached_key, assignee_lower)
    /\ Len(assignee_lower) = 0

\* lines 267-276: a score is a division, which raises when the divisor is 0
ScoreRaises(assignee_lower, cached_key) ==
    \/ Contains(assignee_lower, cached_key) /\ Len(cached_key) = 0
    \/ /\ ~Contains(assignee_lower, cached_key)
       /\ Contains(cached_key, assignee_lower)
       /\ Len(assignee_lower) = 0

\* lines 256-276: the exact match returns before the loop; the loop raises at the
\* first key it scores with a zero divisor
MatchAssigneeRaises(assignee, user_cache) ==
    LET assignee_lower == Strip(Lower(assignee))
    IN  /\ ~DictHas(user_cache, assignee_lower)
        /\ \E i \in 1..Len(user_cache) :
               /\ user_cache[i][1] # user_cache[i][2]
               /\ ScoreRaises(assignee_lower, user_cache[i][1])

\* Variant of MatchAssignee: a score of exactly 0.3 is accepted
MatchAssignee_AtLeast(assignee, user_cache) ==
    LET assignee_lower == Strip(Lower(assignee))
        best == FuzzyFrom(user_cache, assignee_lower, 1,
                          [match |-> None, num |-> 0, den |-> 1])
    IN  IF DictHas(user_cache, assignee_lower) THEN DictGet(user_cache, assignee_lower)
        ELSE IF best.match # None /\ best.match # <<>> /\ 10 * best.num >= 3 * best.den
             THEN best.match
        ELSE assignee

\* Variant of MatchAssignee: the reference is not lower-cased
MatchAssignee_NoLower(assignee, user_cache) ==
    LET assignee_lower == Strip(assignee)
        best == FuzzyFrom(user_cache, assignee_lower, 1,
                          [match |-> None, num |-> 0, den |-> 1])
    IN  IF DictHas(user_cache, assignee_lower) THEN DictGet(user_cache, assignee_lower)
        ELSE IF best.match # None /\ best.match # <<>> /\ 10 * best.num > 3 * best.den
             THEN best.match
        ELSE assignee

\* lines 246, 255-286: the answer once the cache has been fetched
MatchAssignee(assignee, user_cache) ==
    LET assignee_lower == Strip(Lower(assignee))
        best == FuzzyFrom(user_cache, assignee_lower, 1,
                          [match |-> None, num |-> 0, den |-> 1])
    IN  IF DictHas(user_cache, assignee_lower) THEN DictGet(user_cache, assignee_lower)
        ELSE IF best.match # None /\ best.match # <<>> /\ 10 * best.num > 3 * best.den
             THEN best.match
        ELSE assignee

\* lines 255-286: resolve_assignee once _fetch_workspace_users has answered f
ResolveFetched(assignee, f) ==
    [cache |-> f.cache, ts |-> f.ts,
     ret |-> IF MatchAssigneeRaises(assignee, f.ret) THEN None
             ELSE MatchAssignee(assignee, f.ret),
     up |-> f.up, ok |-> f.ok, consulted |-> TRUE,
     raised |-> MatchAssigneeRaises(assignee, f.ret)]

\* lines 233-286: resolve_assignee with the _fetch_workspace_users call it makes
ResolveAssignee(assignee, cache, ts, current_time, up) ==
    IF assignee = <<>>
    THEN [cache |-> cache, ts |-> ts, ret |-> <<>>, up |-> NoUp, ok |-> FALSE,
          consulted |-> FALSE, raised |-> FALSE]
    ELSE IF LooksLikeGid(assignee)
    THEN [cache |-> cache, ts |-> ts, ret |-> assignee, up |-> NoUp, ok |-> FALSE,
          consulted |-> FALSE, raised |-> FALSE]
    ELSE ResolveFetched(assignee, FetchWorkspaceUsers(cache, ts, current_time, up))

(* ------------------------------- state -------------------------------- *)

VARIABLES
    _user_cache,        \* line 17: the alias index, a dict in insertion order
    _cache_timestamp,   \* line 18: time of the last complete rebuild, or NoTimestamp
    now,                \* the clock time.time() reads
    ticks,              \* how often the clock has advanced (bounds the run)
    directory,          \* the member list the workspace holds upstream
    call,               \* the last call made: its input, its result, what it did
    lastGood,           \* history: the index built by the last refresh that completed
    window,             \* history: the fetches since the last invalidation
    procs               \* the callers that run _fetch_workspace_users step by step

vars ==
    <<_user_cache, _cache_timestamp, now, ticks, directory, call, lastGood, window,
      procs>>

\* The callers (threads) that may run _fetch_workspace_users at the same time
Callers == {1, 2}

\* A caller's position in _fetch_workspace_users and its locals
Idle ==
    [pc |-> "idle", current_time |-> 0, users |-> <<>>, i |-> 0, ret |-> <<>>,
     failed |-> FALSE]

\* The clock value at start-up (time.time() is positive)
StartTime == 1

\* How many times the clock advances in a run
MaxTicks == 2

\* History counters stop counting here
CountCap == 2

TickSteps == {1, _cache_duration - 1}

Digits10 == [i \in 1..10 |-> "1"]
Str_al == <<"a", "l">>
Str_AlB == <<"A", "l", " ", "B">>
Str_lb == <<"l", " ", "b">>
Str_xx == <<"x", "x">>
Str_alpad == <<" ", "A", "L", " ">>
Str_1x10a == [i \in 1..11 |-> IF i = 11 THEN "a" ELSE "1"]
Str_blank == <<" ", " ">>
Str_B == <<"B">>
Str_ax10 == Str_ax \o [i \in 1..7 |-> "a"]
Str_atx == <<"@", "x">>

\* References resolve_assignee is called with
Assignees ==
    {<<>>, Gid11, Digits10, Str_1x10a, Str_ALBO, Str_al, Str_AlB, Str_AX, Str_2,
     Str_lb, Str_xx, Str_alpad, Str_blank, Str_B, Str_ax10, Str_atx}

\* Member lists the workspace holds while the cache is exercised
Directories ==
    {<<>>, <<UserAlBo>>, <<UserAlBo, UserAlBa>>, <<UserAlBa, UserNullEmail, UserAlBo>>,
     <<UserNoGid>>}

\* References resolve_assignee is called with while the cache is exercised
CacheAssignees == {<<>>, Gid11, Str_al, Str_xx, Str_blank}

\* What create_multiple_subtasks did with its list: the list it was given, what
\* get_task answered about the parent ("none" when not asked), the names its loop
\* went through, the names it sent a creation for, and the two counts it reports
NoMulti ==
    [subtask_list |-> <<>>, info |-> "none", attempted |-> <<>>, sent |-> <<>>,
     created |-> 0, failed |-> 0]

\* What a task tool did: how it ended, the task it acted on, whether it searched,
\* how many updates or creations it sent, the candidates it listed, what the
\* workspace lookup and the task search answered, for update_asana_task the
\* project it was given and whether it was given a field to update, and for
\* create_multiple_subtasks what it did with its list
NoTask ==
    [result |-> "none", task_gid |-> <<>>, searched |-> FALSE, sent |-> 0,
     listed |-> <<>>, me |-> "none", search |-> "none", tasks |-> <<>>,
     project |-> <<>>, supplied |-> FALSE, multi |-> NoMulti]

NoCall ==
    [op |-> "none", arg |-> <<>>, ret |-> <<>>, me |-> "none", fetch |-> "none",
     ok |-> FALSE, consulted |-> FALSE, raised |-> FALSE, task |-> NoTask]

\* The fetches since the last invalidation, made at time at: how many member-list
\* fetches, whether one completed with a non-empty index, whether the upstream was
\* called after that one, whether resolve_assignee has consulted the cache
NoWindow ==
    [at |-> NoTimestamp, fetches |-> 0, good |-> FALSE, late |-> FALSE,
     resolved |-> FALSE]

Bump(n) == IF n < CountCap THEN n + 1 ELSE n

\* The window after a call with result r
WindowAfter(w, r, isResolve) ==
    IF w.at = NoTimestamp THEN w
    ELSE [at |-> w.at,
          fetches |-> IF r.up.fetch # "none" THEN Bump(w.fetches) ELSE w.fetches,
          good |-> (w.good \/ (r.ok /\ r.cache # <<>>)),
          late |-> (w.late \/ (r.up # NoUp /\ w.good)),
          resolved |-> (w.resolved \/ (isResolve /\ r.consulted))]

Init ==
    /\ _user_cache = <<>>
    /\ _cache_timestamp = NoTimestamp
    /\ now = StartTime
    /\ ticks = 0
    /\ directory = <<>>
    /\ call = NoCall
    /\ lastGood = <<>>
    /\ window = NoWindow
    /\ procs = [c \in Callers |-> Idle]

\* The upstream answers a call may meet: none when the cache is served
UpsFor(cache, ts, current_time) ==
    IF CacheValid(cache, ts, current_time) THEN {NoUp} ELSE Ups(directory)

\* The state after a call with result r
Finish(op, arg, r, w, isResolve) ==
    /\ _user_cache' = r.cache
    /\ _cache_timestamp' = r.ts
    /\ call' = [op |-> op, arg |-> arg, ret |-> r.ret, me |-> r.up.me,
                fetch |-> r.up.fetch, ok |-> r.ok, consulted |-> r.consulted,
                raised |-> r.raised, task |-> NoTask]
    /\ lastGood' = IF r.ok THEN r.cache ELSE lastGood
    /\ window' = WindowAfter(w, r, isResolve)
    /\ UNCHANGED <<now, ticks, directory, procs>>

\* The clock advances
Tick ==
    /\ ticks < MaxTicks
    /\ \E d \in TickSteps : now' = now + d
    /\ ticks' = ticks + 1
    /\ window' = IF window.at # NoTimestamp /\ now' - window.at >= _cache_duration
                  THEN NoWindow ELSE window
    /\ UNCHANGED <<_user_cache, _cache_timestamp, directory, call, lastGood, procs>>

\* Members join or leave the workspace upstream
DirectoryChanges ==
    /\ \E d \in Directories \ {directory} : directory' = d
    /\ UNCHANGED <<_user_cache, _cache_timestamp, now, ticks, call, lastGood, window,
                   procs>>

\* A call of _fetch_workspace_users (lines 146-231)
FetchWorkspaceUsersCall ==
    \E up \in UpsFor(_user_cache, _cache_timestamp, now) :
        LET f == FetchWorkspaceUsers(_user_cache, _cache_timestamp, now, up)
            r == [cache |-> f.cache, ts |-> f.ts, ret |-> f.ret, up |-> f.up,
                  ok |-> f.ok, consulted |-> TRUE, raised |-> FALSE]
        IN  Finish("fetch", <<>>, r, window, FALSE)

\* A call of resolve_assignee (lines 233-286)
ResolveAssigneeCall ==
    \E assignee \in CacheAssignees :
        \E up \in (IF assignee = <<>> \/ LooksLikeGid(assignee) THEN {NoUp}
                   ELSE UpsFor(_user_cache, _cache_timestamp, now)) :
            Finish("resolve", assignee,
                   ResolveAssignee(assignee, _user_cache, _cache_timestamp, now, up),
                   window, TRUE)

\* find_team_member_gid, lines 682-685 (get_team_members, lines 822-824, does the
\* same): the timestamp is cleared and the cache fetched at once
FindTeamMemberGid ==
    \E up \in Ups(directory) :
        LET f == FetchWorkspaceUsers(_user_cache, NoTimestamp, now, up)
            r == [cache |-> f.cache, ts |-> f.ts, ret |-> f.ret, up |-> f.up,
                  ok |-> f.ok, consulted |-> TRUE, raised |-> FALSE]
        IN  Finish("find", <<>>, r, [NoWindow EXCEPT !.at = now], FALSE)

Next ==
    \/ Tick
    \/ DirectoryChanges
    \/ FetchWorkspaceUsersCall
    \/ ResolveAssigneeCall
    \/ FindTeamMemberGid

Spec == Init /\ [][Next]_vars

(* ------------------------- update_asana_task --------------------------- *)

Str_P == <<"P">>
Str_ab == <<"a", "b">>
Str_Ab == <<"A", "b">>
Str_abcd == <<"a", "b", " ", "c", "d">>
Str_ABCDEF == <<"A", "B", " ", "C", "D", " ", "E", "F">>
Gid12 == [i \in 1..12 |-> "2"]
Gid13 == [i \in 1..13 |-> "3"]

Str_write == <<"w", "r", "i", "t", "e">>
Str_WriteReport == <<"W", "r", "i", "t", "e", " ", "r", "e", "p", "o", "r", "t">>
Str_WriteSummary == <<"W", "r", "i", "t", "e", " ", "s", "u", "m", "m", "a", "r", "y">>
Str_41 == <<"4", "1">>
Str_42 == <<"4", "2">>

Task(gid, name) == [gid |-> gid, name |-> name]
TaskAb == Task(Gid12, Str_Ab)
TaskAbCd == Task(Gid13, Str_abcd)
TaskWriteReport == Task(Str_41, Str_WriteReport)
TaskWriteSummary == Task(Str_42, Str_WriteSummary)

\* A search result of seven tasks; all but the second have "ab" in the title
SevenTasks ==
    [i \in 1..7 |->
        Task(<<"7", <<"1", "2", "3", "4", "5", "6", "7">>[i]>>,
             IF i = 2 THEN Str_xx ELSE IF i = 4 THEN Str_Ab ELSE Str_abcd)]

\* What the workspace lookup and the task search of one call answer:
\*   me     - users_api.get_user and me['workspaces'][0]: "ok" or "raise"
\*   search - tasks_api.search_tasks_for_workspace: "ok" or "raise"
\*   tasks  - the tasks the search returns, in its order
NoAnswer == [me |-> "none", search |-> "none", tasks |-> <<>>]
AnswerMeRaises == [me |-> "raise", search |-> "none", tasks |-> <<>>]
AnswerSearchRaises == [me |-> "ok", search |-> "raise", tasks |-> <<>>]
AnswerTasks(tasks) == [me |-> "ok", search |-> "ok", tasks |-> tasks]

\* The task lists a search returns
SearchResults ==
    {<<TaskAb, TaskAbCd>>, <<TaskWriteReport, TaskWriteSummary>>, SevenTasks}

Answers == {AnswerMeRaises, AnswerSearchRaises} \cup {AnswerTasks(l) : l \in SearchResults}

\* lines 503-508: the tasks of the search result that match the reference
RECURSIVE MatchingTasksFrom(_, _, _)
MatchingTasksFrom(tasks, task_name_or_gid, i) ==
    IF i > Len(tasks) THEN <<>>
    ELSE LET rest == MatchingTasksFrom(tasks, task_name_or_gid, i + 1)
         IN  IF Lower(tasks[i].name) = Lower(task_name_or_gid)
             THEN <<tasks[i]>> \o rest
             ELSE IF Contains(Lower(task_name_or_gid), Lower(tasks[i].name))
             THEN <<tasks[i]>> \o rest
             ELSE rest

MatchingTasks(tasks, task_name_or_gid) == MatchingTasksFrom(tasks, task_name_or_gid, 1)

\* Variant of FirstFive: every match is listed
FirstFive_All(matching_tasks) == matching_tasks

\* lines 513, 1025: matching_tasks[:5]
FirstFive(matching_tasks) ==
    SubSeq(matching_tasks, 1, IF Len(matching_tasks) < 5 THEN Len(matching_tasks) ELSE 5)

\* Variant of SearchFailure: a failed search counts as a search without result
SearchFailure_NoResult == "not_found"

\* lines 538-539, 1048-1049: an exception of the lookup or the search ends the call
\* in the except clause
SearchFailure == "exception"

\* Variant of LocateTask: of several matching tasks the first is taken
LocateTask_FirstMatch(task_name_or_gid, project, answer) ==
    IF LooksLikeGid(task_name_or_gid)
    THEN [result |-> "found", task_gid |-> task_name_or_gid, searched |-> FALSE,
          answer |-> NoAnswer, listed |-> <<>>]
    ELSE IF project = <<>>
    THEN [result |-> "project_required", task_gid |-> <<>>, searched |-> FALSE,
          answer |-> NoAnswer, listed |-> <<>>]
    ELSE IF answer.me = "raise"
    THEN [result |-> SearchFailure, task_gid |-> <<>>, searched |-> FALSE,
          answer |-> answer, listed |-> <<>>]
    ELSE IF answer.search = "raise"
    THEN [result |-> SearchFailure, task_gid |-> <<>>, searched |-> TRUE,
          answer |-> answer, listed |-> <<>>]
    ELSE LET matching_tasks == MatchingTasks(answer.tasks, task_name_or_gid)
         IN  IF matching_tasks = <<>>
             THEN [result |-> "not_found", task_gid |-> <<>>, searched |-> TRUE,
                   answer |-> answer, listed |-> <<>>]
             ELSE [result |-> "found", task_gid |-> matching_tasks[1].gid,
                   searched |-> TRUE, answer |-> answer, listed |-> <<>>]

\* lines 471-517 (create_subtask: lines 981-1028): the task-locating step. result is
\* "found" when task_gid is set, and else names the return or the exception that ends
\* the call; listed holds the candidates the message of an ambiguous reference names
LocateTask(task_name_or_gid, project, answer) ==
    IF LooksLikeGid(task_name_or_gid)
    THEN [result |-> "found", task_gid |-> task_name_or_gid, searched |-> FALSE,
          answer |-> NoAnswer, listed |-> <<>>]
    ELSE IF project = <<>>
    THEN [result |-> "project_required", task_gid |-> <<>>, searched |-> FALSE,
          answer |-> NoAnswer, listed |-> <<>>]
    ELSE IF answer.me = "raise"
    THEN [result |-> SearchFailure, task_gid |-> <<>>, searched |-> FALSE,
          answer |-> answer, listed |-> <<>>]
    ELSE IF answer.search = "raise"
    THEN [result |-> SearchFailure, task_gid |-> <<>>, searched |-> TRUE,
          answer |-> answer, listed |-> <<>>]
    ELSE LET matching_tasks == MatchingTasks(answer.tasks, task_name_or_gid)
         IN  IF matching_tasks = <<>>
             THEN [result |-> "not_found", task_gid |-> <<>>, searched |-> TRUE,
                   answer |-> answer, listed |-> <<>>]
             ELSE IF Len(matching_tasks) > 1
             THEN [result |-> "ambiguous", task_gid |-> <<>>, searched |-> TRUE,
                   answer |-> answer, listed |-> FirstFive(matching_tasks)]
             ELSE [result |-> "found", task_gid |-> matching_tasks[1].gid,
                   searched |-> TRUE, answer |-> answer, listed |-> <<>>]

\* What the call record keeps of the locating step loc that ended with result
TaskRecord(loc, result, sent) ==
    [result |-> result, task_gid |-> loc.task_gid, searched |-> loc.searched,
     sent |-> sent, listed |-> loc.listed, me |-> loc.answer.me,
     search |-> loc.answer.search, tasks |-> loc.answer.tasks,
     project |-> <<>>, supplied |-> FALSE, multi |-> NoMulti]

\* The answers the locating step may meet: none when it asks nothing upstream
AnswersFor(task_name_or_gid, project) ==
    IF LooksLikeGid(task_name_or_gid) \/ project = <<>> THEN {NoAnswer} ELSE Answers

\* References the task tools are called with
TaskRefs == {Gid11, Digits10, Str_ab, Str_ABCDEF, Str_xx, Str_write, Str_WriteReport}

Projects == {<<>>, Str_P}

\* Assignees the task tools are called with
TaskAssignees == {<<>>, Gid11, Str_al}

\* lines 519-536 after the task was located: _build_task_data (lines 288-345) has
\* resolved the assignee with result a; other tells whether another field gives
\* task_data an entry; update_task is sent when task_data is not empty and may
\* raise (sendOk)
UpdateLocated(loc, assignee, other, a, sendOk) ==
    [cache |-> a.cache, ts |-> a.ts, ret |-> a.ret, up |-> a.up, ok |-> a.ok,
     consulted |-> a.consulted, raised |-> FALSE,
     task |-> TaskRecord(loc,
                         IF a.raised THEN "exception"
                         ELSE IF assignee = <<>> /\ ~other THEN "no_fields"
                         ELSE IF sendOk THEN "updated" ELSE "exception",
                         IF (assignee # <<>> \/ other) /\ ~a.raised THEN 1 ELSE 0)]

\* lines 1030-1046 after the parent task was located: _build_task_data has resolved
\* the assignee with result a; subtask_data always holds the parent, so create_task
\* is always sent and may raise (sendOk)
CreateLocated(loc, a, sendOk) ==
    [cache |-> a.cache, ts |-> a.ts, ret |-> a.ret, up |-> a.up, ok |-> a.ok,
     consulted |-> a.consulted, raised |-> FALSE,
     task |-> TaskRecord(loc,
                         IF a.raised THEN "exception"
                         ELSE IF sendOk THEN "created" ELSE "exception",
                         IF a.raised THEN 0 ELSE 1)]

\* The state after a task tool call with result r
FinishTask(op, arg, r) ==
    /\ _user_cache' = r.cache
    /\ _cache_timestamp' = r.ts
    /\ call' = [op |-> op, arg |-> arg, ret |-> r.ret, me |-> r.up.me,
                fetch |-> r.up.fetch, ok |-> r.ok, consulted |-> r.consulted,
                raised |-> r.raised, task |-> r.task]
    /\ lastGood' = IF r.ok THEN r.cache ELSE lastGood
    /\ window' = WindowAfter(window, r, TRUE)
    /\ UNCHANGED <<now, ticks, directory, procs>>

(* ---------------- a directory that works and never changes ------------- *)

\* Any member list of up to MaxUsers entries; the upstream always answers with it
InitIndex ==
    /\ _user_cache = <<>>
    /\ _cache_timestamp = NoTimestamp
    /\ now = StartTime
    /\ ticks = 0
    /\ directory \in UserLists
    /\ call = NoCall
    /\ lastGood = <<>>
    /\ window = NoWindow
    /\ procs = [c \in Callers |-> Idle]

\* A call of _fetch_workspace_users (lines 146-231) that meets no upstream failure
IndexFetch ==
    LET f == FetchWorkspaceUsers(_user_cache, _cache_timestamp, now, UpUsers(directory))
        r == [cache |-> f.cache, ts |-> f.ts, ret |-> f.ret, up |-> f.up,
              ok |-> f.ok, consulted |-> TRUE, raised |-> FALSE]
    IN  Finish("fetch", <<>>, r, window, FALSE)

\* A call of resolve_assignee (lines 233-286) that meets no upstream failure
IndexResolve ==
    \E assignee \in Assignees :
        Finish("resolve", assignee,
               ResolveAssignee(assignee, _user_cache, _cache_timestamp, now,
                               UpUsers(directory)),
               window, TRUE)

NextIndex == IndexFetch \/ IndexResolve

SpecIndex == InitIndex /\ [][NextIndex]_vars

(* ---------------------------- _parse_due_date --------------------------- *)

DigitSeq == <<"0", "1", "2", "3", "4", "5", "6", "7", "8", "9">>

\* The value of each digit character
DigitOf == [c \in DigitChars |-> (CHOOSE i \in 1..10 : DigitSeq[i] = c) - 1]

\* The decimal value of a string of digits
RECURSIVE DigitsValue(_, _)
DigitsValue(s, acc) ==
    IF s = <<>> THEN acc
    ELSE DigitsValue(Tail(s), IF s[1] = "_" THEN acc ELSE acc * 10 + DigitOf[s[1]])

\* int(s) accepts, after trimming, an optional sign and digits that single
\* underscores may separate; anything else raises ValueError
IntLiteral(s) ==
    LET t == Strip(s)
        body == IF t # <<>> /\ t[1] \in {"+", "-"} THEN Tail(t) ELSE t
    IN  /\ body # <<>>
        /\ \A i \in 1..Len(body) : body[i] \in DigitChars \cup {"_"}
        /\ body[1] # "_" /\ body[Len(body)] # "_"
        /\ \A i \in 1..(Len(body) - 1) : ~(body[i] = "_" /\ body[i + 1] = "_")

\* int(s) for a string int() accepts
IntValue(s) ==
    LET t == Strip(s)
    IN  IF t[1] = "-" THEN 0 - DigitsValue(Tail(t), 0)
        ELSE IF t[1] = "+" THEN DigitsValue(Tail(t), 0)
        ELSE DigitsValue(t, 0)

Str_today == <<"t", "o", "d", "a", "y">>
Str_now == <<"n", "o", "w">>
Str_tomorrow == <<"t", "o", "m", "o", "r", "r", "o", "w">>
Str_days == <<"d", "a", "y", "s">>

\* str.endswith
EndsWith(s, suffix) ==
    Len(s) >= Len(suffix) /\ SubSeq(s, Len(s) - Len(suffix) + 1, Len(s)) = suffix

\* line 363: str.replace('days', ''), which drops every occurrence from left to right
RECURSIVE RemoveDays(_)
RemoveDays(s) ==
    IF Len(s) < 4 THEN s
    ELSE IF SubSeq(s, 1, 4) = Str_days THEN RemoveDays(SubSeq(s, 5, Len(s)))
    ELSE <<s[1]>> \o RemoveDays(Tail(s))

\* The proleptic Gregorian calendar of the datetime module
IsLeap(year) == year % 4 = 0 /\ (year % 100 # 0 \/ year % 400 = 0)

DaysInMonthTable == <<31, 28, 31, 30, 31, 30, 31, 31, 30, 31, 30, 31>>
DaysBeforeMonthTable == <<0, 31, 59, 90, 120, 151, 181, 212, 243, 273, 304, 334>>

DaysInMonth(year, month) ==
    IF month = 2 /\ IsLeap(year) THEN 29 ELSE DaysInMonthTable[month]

DaysBeforeYear(year) ==
    (year - 1) * 365 + ((year - 1) \div 4) - ((year - 1) \div 100) + ((year - 1) \div 400)

\* datetime accepts the years 1 to 9999 and the days the month has
ValidDate(year, month, day) ==
    /\ year >= 1 /\ year <= 9999
    /\ month >= 1 /\ month <= 12
    /\ day >= 1 /\ day <= DaysInMonth(year, month)

\* date.toordinal(): day 1 is 0001-01-01
ToOrdinal(year, month, day) ==
    DaysBeforeYear(year) + DaysBeforeMonthTable[month]
        + (IF month > 2 /\ IsLeap(year) THEN 1 ELSE 0) + day

\* date.fromordinal()
FromOrdinal(ordinal) ==
    LET n0 == ordinal - 1
        n400 == n0 \div 146097
        r400 == n0 % 146097
        n100 == r400 \div 36524
        r100 == r400 % 36524
        n4 == r100 \div 1461
        r4 == r100 % 1461
        n1 == r4 \div 365
        n == r4 % 365
        year == n400 * 400 + 1 + n100 * 100 + n4 * 4 + n1
        leapyear == n1 = 3 /\ (n4 # 24 \/ n100 = 3)
        month0 == (n + 50) \div 32
        preceding0 ==
            DaysBeforeMonthTable[month0] + (IF month0 > 2 /\ leapyear THEN 1 ELSE 0)
        month == IF preceding0 > n THEN month0 - 1 ELSE month0
        preceding ==
            IF preceding0 > n
            THEN preceding0 - (DaysInMonthTable[month]
                                  + (IF month = 2 /\ leapyear THEN 1 ELSE 0))
            ELSE preceding0
    IN  IF n1 = 4 \/ n100 = 4
        THEN [year |-> year - 1, month |-> 12, day |-> 31]
        ELSE [year |-> year, month |-> month, day |-> n - preceding + 1]

\* A number in decimal, padded with zeros to width digits
RECURSIVE Pad(_, _)
Pad(n, width) ==
    IF width = 0 THEN <<>> ELSE Pad(n \div 10, width - 1) \o <<DigitSeq[(n % 10) + 1]>>

\* strftime('%Y-%m-%d'), for the years from 1000 on
Strftime(date) ==
    Pad(date.year, 4) \o <<"-">> \o Pad(date.month, 2) \o <<"-">> \o Pad(date.day, 2)

\* lines 357, 359, 364: datetime.now() as a date, from the clock in seconds (day 719163
\* is 1970-01-01)
Today(clock) == 719163 + (clock \div 86400)

\* The clock at a time of a day
InstantAt(year, month, day, seconds) ==
    (ToOrdinal(year, month, day) - 719163) * 86400 + seconds

\* The text between the separators sep, empty pieces included
RECURSIVE PiecesFrom(_, _, _, _)
PiecesFrom(s, sep, i, piece) ==
    IF i > Len(s) THEN <<piece>>
    ELSE IF s[i] = sep THEN <<piece>> \o PiecesFrom(s, sep, i + 1, <<>>)
    ELSE PiecesFrom(s, sep, i + 1, Append(piece, s[i]))

Pieces(s, sep) == PiecesFrom(s, sep, 1, <<>>)

\* The text a directive of strptime accepts: %Y four digits, %y two digits, %m 1 to 12
\* and %d 1 to 31 in one or two digits (%d also a space and a digit)
FieldOk(directive, t) ==
    CASE directive = "Y" -> Len(t) = 4 /\ IsDigit(t)
      [] directive = "y" -> Len(t) = 2 /\ IsDigit(t)
      [] directive = "m" ->
            \/ Len(t) = 1 /\ IsDigit(t) /\ t[1] # "0"
            \/ Len(t) = 2 /\ t[1] = "0" /\ IsDigit(t) /\ t[2] # "0"
            \/ Len(t) = 2 /\ t[1] = "1" /\ t[2] \in {"0", "1", "2"}
      [] directive = "d" ->
            \/ Len(t) = 1 /\ IsDigit(t) /\ t[1] # "0"
            \/ Len(t) = 2 /\ t[1] = "0" /\ IsDigit(t) /\ t[2] # "0"
            \/ Len(t) = 2 /\ t[1] \in {"1", "2"} /\ IsDigit(t)
            \/ Len(t) = 2 /\ t[1] = "3" /\ t[2] \in {"0", "1"}
            \/ Len(t) = 2 /\ t[1] = " " /\ t[2] \in DigitChars \ {"0"}

\* The number a field stands for; %y 69 to 99 is 19xx and 00 to 68 is 20xx
FieldValue(directive, t) ==
    LET v == DigitsValue(Strip(t), 0)
    IN  IF directive = "y" THEN (IF v >= 69 THEN 1900 + v ELSE 2000 + v) ELSE v

NoDate == [year |-> 0, month |-> 0, day |-> 0]

\* datetime.strptime(s, fmt) for a format of three directives and a separator:
\* NoDate stands for ValueError
Strptime(s, fmt) ==
    LET pieces == Pieces(s, fmt.sep)
        at(directive) == CHOOSE i \in 1..3 : fmt.fields[i] = directive
        yd == IF \E i \in 1..3 : fmt.fields[i] = "Y" THEN "Y" ELSE "y"
    IN  IF Len(pieces) # 3 \/ \E i \in 1..3 : ~FieldOk(fmt.fields[i], pieces[i])
        THEN NoDate
        ELSE LET date == [year |-> FieldValue(yd, pieces[at(yd)]),
                          month |-> FieldValue("m", pieces[at("m")]),
                          day |-> FieldValue("d", pieces[at("d")])]
             IN  IF ValidDate(date.year, date.month, date.day) THEN date ELSE NoDate

Format(sep, fields) == [sep |-> sep, fields |-> fields]

\* Variant of DateFormats: the day-first format comes before the month-first one
DateFormats_DayFirst ==
    <<Format("-", <<"Y", "m", "d">>), Format("/", <<"d", "m", "Y">>),
      Format("-", <<"m", "d", "Y">>), Format("/", <<"m", "d", "Y">>),
      Format("/", <<"Y", "m", "d">>), Format("/", <<"m", "d", "y">>),
      Format("-", <<"m", "d", "y">>)>>

\* line 369: the formats, in the order they are tried
DateFormats ==
    <<Format("-", <<"Y", "m", "d">>), Format("/", <<"m", "d", "Y">>),
      Format("-", <<"m", "d", "Y">>), Format("/", <<"d", "m", "Y">>),
      Format("/", <<"Y", "m", "d">>), Format("/", <<"m", "d", "y">>),
      Format("-", <<"m", "d", "y">>)>>

\* lines 369-375: the first format that parses gives the date; the text is returned as
\* it is when none does
RECURSIVE ParseAbsoluteFrom(_, _)
ParseAbsoluteFrom(due_date, i) ==
    IF i > Len(DateFormats) THEN [ret |-> due_date, raised |-> FALSE]
    ELSE IF Strptime(due_date, DateFormats[i]) # NoDate
    THEN [ret |-> Strftime(Strptime(due_date, DateFormats[i])), raised |-> FALSE]
    ELSE ParseAbsoluteFrom(due_date, i + 1)

\* lines 359, 364: datetime.now() + timedelta(days=days), formatted. timedelta raises
\* OverflowError beyond 999999999 days and so does the sum outside the years 1 to 9999;
\* the except clause of line 365 catches ValueError only
AddDays(today, days) ==
    IF days > 999999999 \/ days < -999999999 \/ today + days < 1 \/ today + days > 3652059
    THEN [ret |-> None, raised |-> TRUE]
    ELSE [ret |-> Strftime(FromOrdinal(today + days)), raised |-> FALSE]

\* lines 347-375: _parse_due_date, called when the clock shows clock
ParseDueDate(due_date, clock) ==
    LET lower == Lower(due_date)
    IN  IF due_date = <<>> THEN [ret |-> <<>>, raised |-> FALSE]
        ELSE IF lower \in {Str_today, Str_now}
        THEN [ret |-> Strftime(FromOrdinal(Today(clock))), raised |-> FALSE]
        ELSE IF lower = Str_tomorrow THEN AddDays(Today(clock), 1)
        ELSE IF EndsWith(lower, Str_days) /\ IntLiteral(RemoveDays(lower))
        THEN AddDays(Today(clock), IntValue(RemoveDays(lower)))
        ELSE ParseAbsoluteFrom(due_date, 1)

\* The texts _parse_due_date is called with
DueDates ==
    {<<>>,
     <<"t", "o", "d", "a", "y">>,
     <<"T", "o", "d", "a", "y">>,
     <<"N", "O", "W">>,
     <<"t", "o", "m", "o", "r", "r", "o", "w">>,
     <<"T", "O", "M", "O", "R", "R", "O", "W">>,
     <<" ", "t", "o", "d", "a", "y">>,
     <<"3", " ", "d", "a", "y", "s">>,
     <<"3", "d", "a", "y", "s">>,
     <<"-", "2", " ", "d", "a", "y", "s">>,
     <<"0", " ", "d", "a", "y", "s">>,
     <<"+", "1", " ", "d", "a", "y", "s">>,
     <<"3", "6", "6", " ", "d", "a", "y", "s">>,
     <<"3", " ", "D", "A", "Y", "S">>,
     <<" ", "3", " ", "d", "a", "y", "s">>,
     <<"x", " ", "d", "a", "y", "s">>,
     <<"d", "a", "y", "s">>,
     <<"1", ".", "5", " ", "d", "a", "y", "s">>,
     <<"1", "d", "a", "y", "s", "2", " ", "d", "a", "y", "s">>,
     <<"1", "_", "0", " ", "d", "a", "y", "s">>,
     <<"4", "0", "0", "0", "0", "0", "0", " ", "d", "a", "y", "s">>,
     <<"1", "0", "0", "0", "0", "0", "0", "0", "0", "0", " ", "d", "a", "y", "s">>,
     <<"-", "8", "0", "0", "0", "0", "0", " ", "d", "a", "y", "s">>,
     <<"3", " ", "d", "a", "y", "s", " ">>,
     <<"2", "0", "2", "4", "-", "0", "2", "-", "1", "3">>,
     <<"2", "0", "2", "4", "-", "2", "-", "3">>,
     <<"1", "3", "/", "0", "2", "/", "2", "0", "2", "4">>,
     <<"0", "2", "/", "1", "3", "/", "2", "0", "2", "4">>,
     <<"0", "2", "/", "0", "3", "/", "2", "0", "2", "4">>,
     <<"2", "/", "3", "/", "2", "0", "2", "4">>,
     <<"0", "2", "-", "1", "3", "-", "2", "0", "2", "4">>,
     <<"2", "0", "2", "4", "/", "0", "2", "/", "1", "3">>,
     <<"0", "2", "/", "1", "3", "/", "2", "4">>,
     <<"0", "2", "-", "1", "3", "-", "2", "4">>,
     <<"0", "2", "/", "1", "3", "/", "6", "9">>,
     <<"0", "2", "/", "3", "0", "/", "2", "0", "2", "4">>,
     <<"2", "9", "/", "0", "2", "/", "2", "0", "2", "4">>,
     <<"2", "9", "/", "0", "2", "/", "2", "0", "2", "3">>,
     <<"1", "3", "/", "1", "3", "/", "2", "0", "2", "4">>,
     <<"1", "3", "/", "0", "2", "/", "2", "4">>,
     <<"2", "0", "2", "4", "-", "0", "2", "-", "1", "3", " ">>,
     <<"n", "e", "x", "t", " ", "w", "e", "e", "k">>,
     <<"0", "2", "/", " ", "3", "/", "2", "0", "2", "4">>,
     <<"0", "0", "0", "0", "-", "0", "1", "-", "0", "1">>,
     <<"1", "2", "/", "3", "1", "/", "2", "0", "2", "4">>,
     <<"x">>}

\* The clock at start-up: the last second of a leap February 28th and of a year, and
\* the first second of a day
DateInstants ==
    {InstantAt(2024, 2, 28, 86399), InstantAt(2023, 12, 31, 86399),
     InstantAt(2023, 2, 28, 0)}

InitDates ==
    /\ _user_cache = <<>>
    /\ _cache_timestamp = NoTimestamp
    /\ now \in DateInstants
    /\ ticks = 0
    /\ directory = <<>>
    /\ call = NoCall
    /\ lastGood = <<>>
    /\ window = NoWindow
    /\ procs = [c \in Callers |-> Idle]

\* A call of _parse_due_date (lines 347-375)
ParseDueDateCall ==
    /\ \E due_date \in DueDates :
          LET r == ParseDueDate(due_date, now)
          IN  call' = [NoCall EXCEPT !.op = "parse_due_date", !.arg = due_date,
                                     !.ret = r.ret, !.raised = r.raised]
    /\ UNCHANGED <<_user_cache, _cache_timestamp, now, ticks, directory, lastGood,
                   window, procs>>

NextDates == Tick \/ ParseDueDateCall

SpecDates == InitDates /\ [][NextDates]_vars

(* ------------------------------ the task tools -------------------------- *)

\* line 305: completed gives task_data an entry
CompletedEntry(completed) ==
    completed # <<>> /\ Lower(completed) \in {Chars("true"), Chars("false")}

\* The fields update_asana_task is called with: none, an assignee, a completed
\* flag that is or is not a truth value, a due date that can or cannot be computed;
\* new_name, notes, priority and the custom fields are left empty
NoFields == [assignee |-> <<>>, completed |-> <<>>, due_date |-> <<>>]

TaskFields ==
    {NoFields,
     [NoFields EXCEPT !.assignee = Gid11],
     [NoFields EXCEPT !.assignee = Str_al],
     [NoFields EXCEPT !.completed = Chars("True")],
     [NoFields EXCEPT !.completed = Chars("maybe")],
     [NoFields EXCEPT !.due_date = Chars("today")],
     [NoFields EXCEPT !.due_date = Chars("4000000 days")],
     [NoFields EXCEPT !.assignee = Str_al, !.due_date = Chars("4000000 days")]}

\* lines 429-441: the caller gave a field to update
Supplied(fields) ==
    fields.assignee # <<>> \/ fields.completed # <<>> \/ fields.due_date # <<>>

\* lines 519-536 with _build_task_data (lines 296-345): a is the result of
\* resolve_assignee (line 322) and d of _parse_due_date (line 326), which runs after
\* it and may raise; the call then ends in the except clause (lines 538-539)
UpdateBuilt(loc, fields, d, a, sendOk) ==
    IF d.raised /\ ~a.raised
    THEN [cache |-> a.cache, ts |-> a.ts, ret |-> a.ret, up |-> a.up, ok |-> a.ok,
          consulted |-> a.consulted, raised |-> FALSE,
          task |-> TaskRecord(loc, "exception", 0)]
    ELSE UpdateLocated(loc, fields.assignee,
                       CompletedEntry(fields.completed) \/ d.ret # <<>>, a, sendOk)

\* The result r of an update_asana_task call with what the call was given
WithInputs(r, project, supplied) ==
    [r EXCEPT !.task.project = project, !.task.supplied = supplied]

\* A call of update_asana_task (lines 429-539)
UpdateAsanaTaskCall ==
    \E task_name_or_gid \in TaskRefs : \E project \in Projects :
      \E answer \in AnswersFor(task_name_or_gid, project) :
        \E loc \in {LocateTask(task_name_or_gid, project, answer)} :
          \E fields \in TaskFields :
            IF loc.result # "found"
            THEN FinishTask("update", task_name_or_gid,
                     WithInputs(
                         [cache |-> _user_cache, ts |-> _cache_timestamp,
                          ret |-> <<>>, up |-> NoUp, ok |-> FALSE,
                          consulted |-> FALSE, raised |-> FALSE,
                          task |-> TaskRecord(loc, loc.result, 0)],
                         project, Supplied(fields)))
            ELSE \E up \in (IF fields.assignee = <<>> \/ LooksLikeGid(fields.assignee)
                             THEN {NoUp}
                             ELSE UpsFor(_user_cache, _cache_timestamp, now)) :
                   \E sendOk \in BOOLEAN :
                     FinishTask("update", task_name_or_gid,
                         WithInputs(
                             UpdateBuilt(loc, fields,
                                 ParseDueDate(fields.due_date, now),
                                 ResolveAssignee(fields.assignee, _user_cache,
                                                 _cache_timestamp, now, up),
                                 sendOk),
                             project, Supplied(fields)))

\* A call of create_subtask (lines 946-1049)
CreateSubtaskCall ==
    \E parent_task_name_or_gid \in TaskRefs : \E project \in Projects :
      \E answer \in AnswersFor(parent_task_name_or_gid, project) :
        \E loc \in {LocateTask(parent_task_name_or_gid, project, answer)} :
            IF loc.result # "found"
            THEN FinishTask("create_subtask", parent_task_name_or_gid,
                     [cache |-> _user_cache, ts |-> _cache_timestamp, ret |-> <<>>,
                      up |-> NoUp, ok |-> FALSE, consulted |-> FALSE, raised |-> FALSE,
                      task |-> TaskRecord(loc, loc.result, 0)])
            ELSE \E assignee \in TaskAssignees :
                   \E up \in (IF assignee = <<>> \/ LooksLikeGid(assignee) THEN {NoUp}
                              ELSE UpsFor(_user_cache, _cache_timestamp, now)) :
                     \E sendOk \in BOOLEAN :
                       FinishTask("create_subtask", parent_task_name_or_gid,
                           CreateLocated(loc,
                               ResolveAssignee(assignee, _user_cache,
                                               _cache_timestamp, now, up),
                               sendOk))

\* The task tools, with a directory that may fail but does not change
InitTasks ==
    /\ _user_cache = <<>>
    /\ _cache_timestamp = NoTimestamp
    /\ now = StartTime
    /\ ticks = 0
    /\ directory \in {<<UserAlBo>>, <<UserAlBo, UserAlBa>>}
    /\ call = NoCall
    /\ lastGood = <<>>
    /\ window = NoWindow
    /\ procs = [c \in Callers |-> Idle]

NextTasks ==
    \/ Tick
    \/ ResolveAssigneeCall
    \/ UpdateAsanaTaskCall
    \/ CreateSubtaskCall

SpecTasks == InitTasks /\ [][NextTasks]_vars

(* ----------------------- create_multiple_subtasks ------------------------ *)

\* str.split(sep): the pieces between the occurrences of sep, empty ones included
RECURSIVE SplitOnFrom(_, _, _, _)
SplitOnFrom(s, sep, i, piece) ==
    IF i > Len(s) THEN <<piece>>
    ELSE IF s[i] = sep THEN <<piece>> \o SplitOnFrom(s, sep, i + 1, <<>>)
    ELSE SplitOnFrom(s, sep, i + 1, Append(piece, s[i]))

SplitOn(s, sep) == SplitOnFrom(s, sep, 1, <<>>)

\* [task.strip() for task in pieces if task.strip()], from piece i on
RECURSIVE StrippedFrom(_, _)
StrippedFrom(pieces, i) ==
    IF i > Len(pieces) THEN <<>>
    ELSE (IF Strip(pieces[i]) # <<>> THEN <<Strip(pieces[i])>> ELSE <<>>)
         \o StrippedFrom(pieces, i + 1)

\* lines 1081-1085: the list is split at newlines when it holds one, else at commas
ParseSubtaskList(subtask_list) ==
    IF \E i \in 1..Len(subtask_list) : subtask_list[i] = "\n"
    THEN StrippedFrom(SplitOn(subtask_list, "\n"), 1)
    ELSE StrippedFrom(SplitOn(subtask_list, ","), 1)

\* What the loop of lines 1143-1159 has done so far: the cache and what
\* resolve_assignee did to it, the names gone through, the names a creation was sent
\* for, and the lengths of created_subtasks and failed_subtasks
StartLoop(cache, ts) ==
    [cache |-> cache, ts |-> ts, ret |-> <<>>, up |-> NoUp, ok |-> FALSE,
     consulted |-> FALSE, attempted |-> <<>>, sent |-> <<>>, created |-> 0,
     failed |-> 0]

\* lines 1144-1159, one iteration for subtask_name: a is the result of
\* resolve_assignee and d of _parse_due_date in _build_task_data; create_task is
\* sent when neither raised, and raises when createOk is false; every exception is
\* caught and adds to failed_subtasks
CreateOne(acc, subtask_name, a, d, createOk) ==
    [cache |-> a.cache, ts |-> a.ts, ret |-> a.ret,
     up |-> IF a.up # NoUp THEN a.up ELSE acc.up,
     ok |-> acc.ok \/ a.ok,
     consulted |-> acc.consulted \/ a.consulted,
     attempted |-> Append(acc.attempted, subtask_name),
     sent |-> IF a.raised \/ d.raised THEN acc.sent ELSE Append(acc.sent, subtask_name),
     created |-> IF ~a.raised /\ ~d.raised /\ createOk THEN acc.created + 1
                 ELSE acc.created,
     failed |-> IF ~a.raised /\ ~d.raised /\ createOk THEN acc.failed
                ELSE acc.failed + 1]

\* Variant of CreateAllFrom: the loop ends at the first name that fails
RECURSIVE CreateAllFrom_StopAtFailure(_, _, _, _, _, _, _, _)
CreateAllFrom_StopAtFailure(subtasks, i, acc, assignee, d, current_time, up, fails) ==
    IF i > Len(subtasks) \/ acc.failed > 0 THEN acc
    ELSE CreateAllFrom_StopAtFailure(subtasks, i + 1,
             CreateOne(acc, subtasks[i],
                       ResolveAssignee(assignee, acc.cache, acc.ts, current_time, up),
                       d, i \notin fails),
             assignee, d, current_time, up, fails)

\* lines 1143-1159: the loop over subtasks from name i on. The upstream answers up
\* in the same way to every refresh the call makes; fails holds the positions of the
\* names for which create_task raises
RECURSIVE CreateAllFrom(_, _, _, _, _, _, _, _)
CreateAllFrom(subtasks, i, acc, assignee, d, current_time, up, fails) ==
    IF i > Len(subtasks) THEN acc
    ELSE CreateAllFrom(subtasks, i + 1,
             CreateOne(acc, subtasks[i],
                       ResolveAssignee(assignee, acc.cache, acc.ts, current_time, up),
                       d, i \notin fails),
             assignee, d, current_time, up, fails)

\* What the call record keeps of a create_multiple_subtasks call: loc the locating
\* step (lines 1088-1137), done the loop
MultiResult(loc, result, subtask_list, info, done) ==
    [cache |-> done.cache, ts |-> done.ts, ret |-> done.ret, up |-> done.up,
     ok |-> done.ok, consulted |-> done.consulted, raised |-> FALSE,
     task |-> [TaskRecord(loc, result, Len(done.sent)) EXCEPT
                  !.multi = [subtask_list |-> subtask_list, info |-> info,
                             attempted |-> done.attempted, sent |-> done.sent,
                             created |-> done.created, failed |-> done.failed]]]

\* The locating step of a call that returned at line 1088, before it
NotLocated ==
    [result |-> "no_subtasks", task_gid |-> <<>>, searched |-> FALSE,
     answer |-> NoAnswer, listed |-> <<>>]

\* The lists create_multiple_subtasks is called with
SubtaskLists ==
    {<<>>, Chars(" , "), Chars("a"), Chars("a,b"), Chars(" a , ,b c ,"),
     Chars("a,a,c"), <<"a", "\n", "b", ",", "c", "\n", " ">>}

\* The fields create_multiple_subtasks is called with for every subtask
SubtaskFields ==
    {NoFields,
     [NoFields EXCEPT !.assignee = Str_al],
     [NoFields EXCEPT !.due_date = Chars("4000000 days")]}

\* The positions at which create_task may raise: none, the first, all but the
\* first, all (the longest list holds three names)
FailSets == {{}, {1}, {2, 3}, {1, 2, 3}}

\* A call of create_multiple_subtasks (lines 1052-1187)
CreateMultipleSubtasksCall ==
    \E parent_task_name_or_gid \in TaskRefs : \E project \in Projects :
      \E subtask_list \in SubtaskLists :
        \E subtasks \in {ParseSubtaskList(subtask_list)} :
          IF subtasks = <<>>
          THEN FinishTask("create_multiple_subtasks", parent_task_name_or_gid,
                   MultiResult(NotLocated, "no_subtasks", subtask_list, "none",
                               StartLoop(_user_cache, _cache_timestamp)))
          ELSE
            \E answer \in AnswersFor(parent_task_name_or_gid, project) :
              \E loc \in {LocateTask(parent_task_name_or_gid, project, answer)} :
                IF loc.result # "found"
                THEN FinishTask("create_multiple_subtasks", parent_task_name_or_gid,
                         MultiResult(loc, loc.result, subtask_list, "none",
                                     StartLoop(_user_cache, _cache_timestamp)))
                ELSE
                  \E fields \in SubtaskFields :
                    \E info \in (IF loc.searched THEN {"none"} ELSE {"ok", "raise"}) :
                      \E up \in (IF fields.assignee = <<>> THEN {NoUp}
                                 ELSE UpsFor(_user_cache, _cache_timestamp, now)) :
                        \E fails \in FailSets :
                          FinishTask("create_multiple_subtasks",
                              parent_task_name_or_gid,
                              MultiResult(loc, "summary", subtask_list, info,
                                  CreateAllFrom(subtasks, 1,
                                      StartLoop(_user_cache, _cache_timestamp),
                                      fields.assignee,
                                      ParseDueDate(fields.due_date, now),
                                      now, up, fails)))

\* create_multiple_subtasks alone, with a directory that may fail
NextSubtasks == CreateMultipleSubtasksCall

SpecSubtasks == InitTasks /\ [][NextSubtasks]_vars

(* ------------------------- get_custom_field_value ----------------------- *)

\* lines 33-97: the option names and option GIDs of each custom field, as dicts
\* in insertion order
asana_field_options ==
    <<<<Chars("Clients"),
        <<<<Chars("Toyota Norcal"), Chars("1200882907169712")>>,
           <<Chars("VSP"), Chars("1200882907169713")>>,
           <<Chars("Upwork"), Chars("1200886612503481")>>,
           <<Chars("McD"), Chars("1200886612503484")>>,
           <<Chars("SCCBS"), Chars("1200886612503489")>>,
           <<Chars("DCCU"), Chars("1200886612504515")>>,
           <<Chars("Workrise"), Chars("1200886612504519")>>,
           <<Chars("Edwards"), Chars("1200886612504523")>>,
           <<Chars("H&L"), Chars("1200886588859928")>>,
           <<Chars("AAA"), Chars("1200894863268356")>>,
           <<Chars("OMCA"), Chars("1201000955909543")>>,
           <<Chars("TNTP"), Chars("1202825105164617")>>,
           <<Chars("NC Wesleyan University (Liaison)"), Chars("1203145583060478")>>,
           <<Chars("Hub Garage"), Chars("1203247286336143")>>,
           <<Chars("Toyota + McD"), Chars("1204261931716483")>>,
           <<Chars("DuckHorn"), Chars("1208345915618445")>>,
           <<Chars("Toyota KC"), Chars("1208524887452169")>>,
           <<Chars("Qualified"), Chars("1209674556515681")>>,
           <<Chars("New Business/Not Listed Above"), Chars("1210702117547501")>>,
           <<Chars("Grocery Outlet"), Chars("1211333012050767")>>>>>>,
      <<Chars("Platform"),
        <<<<Chars("Nexxen / Amobee"), Chars("1206936878420530")>>,
           <<Chars("Amazon"), Chars("1206936878420531")>>,
           <<Chars("The Trade Desk"), Chars("1206936878420532")>>,
           <<Chars("CM360 (Direct Buys / PMAX)"), Chars("1206936878420533")>>,
           <<Chars("SA360 (Search)"), Chars("1206936878420534")>>,
           <<Chars("Google Ads (Youtube)"), Chars("1206936878420535")>>,
           <<Chars("Pinterest"), Chars("1206936878420536")>>,
           <<Chars("Meta"), Chars("1206936878420537")>>,
           <<Chars("TikTok"), Chars("1206936878420538")>>,
           <<Chars("Snapchat"), Chars("1206936878420539")>>,
           <<Chars("Reddit"), Chars("1206936878420540")>>,
           <<Chars("LinkedIn"), Chars("1206936878420541")>>,
           <<Chars("Twitter / X"), Chars("1206936878420542")>>,
           <<Chars("AdMedia (Search)"), Chars("1206936878420543")>>,
           <<Chars("Yelp"), Chars("1206937011155710")>>,
           <<Chars("Next Door"), Chars("1206937011155711")>>>>>>,
      <<Chars("Priority"),
        <<<<Chars("Low"), Chars("1199170187515383")>>,
           <<Chars("Medium"), Chars("1199170187515382")>>,
           <<Chars("High"), Chars("1199170187515381")>>>>>>,
      <<Chars("Task Progress"),
        <<<<Chars("Not Started"), Chars("1200841656461303")>>,
           <<Chars("In Progress"), Chars("1200841656461304")>>,
           <<Chars("Waiting"), Chars("1200841656461305")>>,
           <<Chars("Deferred"), Chars("1200841656461306")>>,
           <<Chars("Done"), Chars("1200841656461307")>>>>>>,
      <<Chars("Status"),
        <<<<Chars("Complete"), Chars("1200907941118114")>>,
           <<Chars("Blocked"), Chars("1200907941118115")>>,
           <<Chars("In Progress"), Chars("1200907941118116")>>>>>>,
      <<Chars("Effort"),
        <<<<Chars("Small"), Chars("1200907941118108")>>,
           <<Chars("Medium"), Chars("1200907941118109")>>,
           <<Chars("Large"), Chars("1200907941118110")>>>>>>>>

\* lines 139-141: the first option from item i on whose name contains the value or
\* is contained in it, both in lower case; the value when there is none (line 144)
RECURSIVE PartialFrom(_, _, _, _)
PartialFrom(field_options, value_lower, i, value) ==
    IF i > Len(field_options) THEN value
    ELSE LET option_name == field_options[i][1]
             option_gid == field_options[i][2]
         IN  IF \/ Contains(value_lower, Lower(option_name))
                \/ Contains(Lower(option_name), value_lower)
             THEN option_gid
             ELSE PartialFrom(field_options, value_lower, i + 1, value)

\* lines 135-141 once the field's options were found: the lower-cased value is looked
\* up among the option names as they are written, then the partial match is tried
FieldOptionValue(field_options, value_lower, value) ==
    IF DictHas(field_options, value_lower)
    THEN DictGet(field_options, value_lower)
    ELSE PartialFrom(field_options, value_lower, 1, value)

\* lines 113-144: get_custom_field_value
GetCustomFieldValue(field_name, value) ==
    IF value = <<>> THEN <<>>
    ELSE IF DictHas(asana_field_options, field_name)
    THEN FieldOptionValue(DictGet(asana_field_options, field_name), Lower(value), value)
    ELSE value

\* The configured field names
FieldNames == {asana_field_options[i][1] : i \in 1..Len(asana_field_options)}

\* The option names of a field; none for a field that is not configured
OptionNames(field_name) ==
    IF DictHas(asana_field_options, field_name)
    THEN LET field_options == DictGet(asana_field_options, field_name)
         IN  {field_options[j][1] : j \in 1..Len(field_options)}
    ELSE {}

\* Field names get_custom_field_value is called with: the configured ones and one in
\* lower case, as the docstring writes them
FieldInputs == FieldNames \cup {Chars("priority")}

\* Values get_custom_field_value is called with for a field: nothing, every option
\* name of the field as it is written and in lower case, and texts that contain an
\* option name of some field, are contained in one, or neither
FieldValues(field_name) ==
    {<<>>} \cup OptionNames(field_name) \cup {Lower(n) : n \in OptionNames(field_name)}
        \cup {Chars("TOYOTA + MCD"), Chars("MEDIUM"), Chars("medium priority"),
              Chars("In Progress"), Chars("ed"), Chars("zz"), Chars("Urgent"),
              Chars("1199170187515381")}

\* A call of get_custom_field_value (lines 113-144)
GetCustomFieldValueCall ==
    /\ \E field_name \in FieldInputs : \E value \in FieldValues(field_name) :
          call' = [NoCall EXCEPT !.op = "get_custom_field_value",
                                 !.arg = [field_name |-> field_name, value |-> value],
                                 !.ret = GetCustomFieldValue(field_name, value)]
    /\ UNCHANGED <<_user_cache, _cache_timestamp, now, ticks, directory, lastGood,
                   window, procs>>

\* get_custom_field_value alone: it reads no state but the option tables
NextFields == GetCustomFieldValueCall

SpecFields == Init /\ [][NextFields]_vars

(* --------------- _fetch_workspace_users, run by several callers -------- *)

\* The interpreter may switch threads between any two statements. The steps below
\* are the reads and writes of the globals; one loop iteration (lines 191-221) is
\* taken as one step, which only removes interleavings.

ConcUnchanged == UNCHANGED <<now, ticks, directory, call, lastGood, window>>

Goto(c, p) == procs' = [procs EXCEPT ![c] = p]

\* lines 154-156: the clock is read and the cache tested; a valid cache is returned
Begin(c) ==
    /\ procs[c].pc \in {"idle", "done"}
    /\ IF CacheValid(_user_cache, _cache_timestamp, now)
       THEN Goto(c, [Idle EXCEPT !.pc = "done", !.current_time = now,
                                 !.ret = _user_cache])
       ELSE Goto(c, [Idle EXCEPT !.pc = "get_user", !.current_time = now])
    /\ UNCHANGED <<_user_cache, _cache_timestamp>>
    /\ ConcUnchanged

\* lines 164-169: users_api.get_user answers, raises or reports no workspace
GetUser(c) ==
    /\ procs[c].pc = "get_user"
    /\ \E me \in {"ok", "raise", "noworkspaces"} :
          Goto(c, IF me = "ok" THEN [procs[c] EXCEPT !.pc = "get_users"]
                  ELSE IF me = "raise"
                  THEN [procs[c] EXCEPT !.pc = "done", !.failed = TRUE,
                                        !.ret = ExceptReturn(_user_cache)]
                  ELSE [procs[c] EXCEPT !.pc = "done", !.failed = TRUE, !.ret = <<>>])
    /\ UNCHANGED <<_user_cache, _cache_timestamp>>
    /\ ConcUnchanged

\* lines 173-184: users_api.get_users_for_workspace answers with the list or raises
GetUsers(c) ==
    /\ procs[c].pc = "get_users"
    /\ \E fetch \in {"ok", "raise"} :
          Goto(c, IF fetch = "ok"
                  THEN [procs[c] EXCEPT !.pc = "reset", !.users = directory]
                  ELSE [procs[c] EXCEPT !.pc = "done", !.failed = TRUE,
                                        !.ret = ExceptReturn(_user_cache)])
    /\ UNCHANGED <<_user_cache, _cache_timestamp>>
    /\ ConcUnchanged

\* line 189: the global is bound to a new empty dict
Reset(c) ==
    /\ procs[c].pc = "reset"
    /\ _user_cache' = RebuildStart(_user_cache)
    /\ Goto(c, [procs[c] EXCEPT !.pc = "loop", !.i = 1])
    /\ UNCHANGED _cache_timestamp
    /\ ConcUnchanged

\* lines 190-221: one iteration; the keys go into the dict the global names now
Loop(c) ==
    /\ procs[c].pc = "loop"
    /\ IF procs[c].i > Len(procs[c].users)
       THEN /\ Goto(c, [procs[c] EXCEPT !.pc = "stamp"])
            /\ UNCHANGED _user_cache
       ELSE IF UserRaises(procs[c].users[procs[c].i])
       THEN /\ Goto(c, [procs[c] EXCEPT !.pc = "done", !.failed = TRUE,
                                        !.ret = ExceptReturn(_user_cache)])
            /\ UNCHANGED _user_cache
       ELSE /\ _user_cache' = AddUser(_user_cache, procs[c].users[procs[c].i])
            /\ Goto(c, [procs[c] EXCEPT !.i = procs[c].i + 1])
    /\ UNCHANGED _cache_timestamp
    /\ ConcUnchanged

\* line 223
Stamp(c) ==
    /\ procs[c].pc = "stamp"
    /\ _cache_timestamp' = procs[c].current_time
    /\ Goto(c, [procs[c] EXCEPT !.pc = "return"])
    /\ UNCHANGED _user_cache
    /\ ConcUnchanged

\* line 225: the dict the global names now is returned
Return(c) ==
    /\ procs[c].pc = "return"
    /\ Goto(c, [procs[c] EXCEPT !.pc = "done", !.ret = _user_cache])
    /\ UNCHANGED <<_user_cache, _cache_timestamp>>
    /\ ConcUnchanged

\* Member lists of the workspace while several callers run
ConcDirectories == {<<UserAlBo, UserAlBa>>, <<UserALBO, UserCyDoBo>>}

InitConc ==
    /\ _user_cache = <<>>
    /\ _cache_timestamp = NoTimestamp
    /\ now = StartTime
    /\ ticks = 0
    /\ directory \in ConcDirectories
    /\ call = NoCall
    /\ lastGood = <<>>
    /\ window = NoWindow
    /\ procs = [c \in Callers |-> Idle]

NextConc ==
    \E c \in Callers :
        \/ Begin(c)
        \/ GetUser(c)
        \/ GetUsers(c)
        \/ Reset(c)
        \/ Loop(c)
        \/ Stamp(c)
        \/ Return(c)

SpecConc == InitConc /\ [][NextConc]_vars

(* ------------------------------ properties ----------------------------- *)

\* The result of a _fetch_workspace_users call made in the current state
FetchNow(up) == FetchWorkspaceUsers(_user_cache, _cache_timestamp, now, up)

\* The index a member list yields when every entry can be processed
RebuildRaises(users) == \E i \in 1..Len(users) : UserRaises(users[i])
CompleteIndex(users) == Rebuild(<<>>, users).cache

\* C1: the index a _fetch_workspace_users call returns is the complete index of the
\* previous successful fetch or the complete index of the newly fetched member list,
\* whatever point the refresh fails at; never a partly built index.
C1_SnapshotNeverPartial ==
    \A up \in UpsFor(_user_cache, _cache_timestamp, now) :
        \/ FetchNow(up).ret = lastGood
        \/ /\ up.fetch = "ok"
           /\ ~RebuildRaises(up.users)
           /\ FetchNow(up).ret = CompleteIndex(up.users)

\* C3: a refresh that fails returns the index of the last successful refresh (the
\* empty index when there was none) and leaves that index in the cache.
C3_FailedRefreshKeepsLastGood ==
    \A up \in UpsFor(_user_cache, _cache_timestamp, now) :
        (FetchNow(up).up # NoUp /\ ~FetchNow(up).ok) =>
            /\ FetchNow(up).ret = lastGood
            /\ FetchNow(up).cache = lastGood

\* No snapshot, an invalidated one, or one that is _cache_duration old
Expired == _cache_timestamp = NoTimestamp \/ now - _cache_timestamp >= _cache_duration

\* C4 as stated: a call goes upstream exactly when there is no snapshot, it was
\* invalidated or it is 3600 s old, whatever the snapshot holds.
C4_UpstreamIffExpired ==
    \A up \in Ups(directory) : (FetchNow(up).up # NoUp) <=> Expired

\* C4 amended: a call goes upstream exactly when there is no snapshot, it was
\* invalidated, it is 3600 s old or the cached index is empty; otherwise no upstream
\* call is made and the cached index is returned, cache and timestamp unchanged.
C4_UpstreamIffExpiredOrEmpty ==
    \A up \in Ups(directory) :
        /\ (FetchNow(up).up # NoUp) <=> (Expired \/ _user_cache = <<>>)
        /\ ~(Expired \/ _user_cache = <<>>) =>
              /\ FetchNow(up).ret = _user_cache
              /\ FetchNow(up).cache = _user_cache
              /\ FetchNow(up).ts = _cache_timestamp
              /\ FetchNow(up).up.fetch = "none"

\* A call served from a snapshot that is one second short of _cache_duration
C4_Witness ==
    /\ call.op = "fetch" /\ call.me = "none"
    /\ _user_cache # <<>>
    /\ now - _cache_timestamp = _cache_duration - 1

Indexed(u) == u.isdict /\ ~UserRaises(u) /\ Strip(u.gid) # <<>>

\* The aliases a member's name and email give
TextAliases(u) ==
    LET name == Strip(u.name)
        email == Strip(u.email)
        parts == Split(name)
    IN  (IF name # <<>> THEN {Lower(name)} ELSE {})
        \cup (IF Len(parts) >= 2
              THEN {Lower(parts[1]),
                    Lower(parts[1]) \o <<" ">> \o <<LowerChar(parts[Len(parts)][1])>>}
              ELSE {})
        \cup (IF email # <<>> THEN {Lower(email)} ELSE {})

ClaimAliases(u) == TextAliases(u) \cup {Strip(u.gid)}

IndexedIn(users) == {i \in 1..Len(users) : Indexed(users[i])}

AllAliases(users) == UNION {ClaimAliases(users[i]) : i \in IndexedIn(users)}

\* The members of users that derive the key k
Derivers(users, k) == {i \in IndexedIn(users) : k \in ClaimAliases(users[i])}

Last(S) == CHOOSE i \in S : \A j \in S : j <= i

\* The cache is the mapping that users derive: their aliases, each mapped to the
\* identifier of the last member deriving it
IsIndexOf(cache, users) ==
    /\ DictKeys(cache) = AllAliases(users)
    /\ Len(cache) = Cardinality(DictKeys(cache))
    /\ \A k \in DictKeys(cache) :
          DictGet(cache, k) = Strip(users[Last(Derivers(users, k))].gid)

\* C9: after a successful refresh the index is exactly the one the newly fetched list
\* derives; no key of the previous snapshot survives unless the new list derives it.
C9_RefreshReplacesIndex ==
    \A up \in Ups(directory) :
        FetchNow(up).ok =>
            /\ IsIndexOf(FetchNow(up).cache, up.users)
            /\ \A k \in DictKeys(_user_cache) \ AllAliases(up.users) :
                  ~DictHas(FetchNow(up).cache, k)
            /\ FetchNow(up).ret = FetchNow(up).cache

\* A refresh has replaced a snapshot that held a member who then left the workspace
C9_Witness ==
    /\ call.ok /\ call.op = "fetch"
    /\ lastGood = _user_cache
    /\ directory = <<UserAlBo>>
    /\ ~DictHas(_user_cache, Str_2) /\ DictHas(_user_cache, Str_1)
    /\ ticks > 0

(* Properties of the index, for a directory that works and never changes *)

\* C7 as stated: a successful rebuild holds exactly the aliases the members with an
\* identifier derive (full name, first name, first name and last initial, email,
\* identifier), and every such member's identifier is mapped to itself.
C7_AliasesAndOwnIdentifier ==
    _cache_timestamp # NoTimestamp =>
        /\ DictKeys(_user_cache) = AllAliases(directory)
        /\ \A i \in IndexedIn(directory) :
              DictGet(_user_cache, Strip(directory[i].gid)) = Strip(directory[i].gid)

\* C7 amended: a successful rebuild holds exactly the aliases the members with an
\* identifier derive from their trimmed fields, and a member's identifier is mapped
\* to itself unless a later member derives the same key from its name or email.
C7_AliasesOfMembers ==
    _cache_timestamp # NoTimestamp =>
        /\ DictKeys(_user_cache) = AllAliases(directory)
        /\ \A i \in IndexedIn(directory) :
              \/ \E j \in IndexedIn(directory) :
                    j > i /\ Strip(directory[i].gid) \in TextAliases(directory[j])
              \/ DictGet(_user_cache, Strip(directory[i].gid)) = Strip(directory[i].gid)

\* The index of a member whose name has three parts, of which one is skipped
C7_Witness ==
    /\ call.ok
    /\ \E i \in 1..Len(directory) : directory[i] = UserCyDoBo
    /\ \E i \in 1..Len(directory) : directory[i] = UserNoGid
    /\ DictHas(_user_cache, <<"c", "y", " ", "b">>)

\* C8: when two members of the fetched list derive the same key, the rebuilt index maps
\* it to the identifier of the one that comes later in the list (the last of them).
C8_LastWriteWins ==
    _cache_timestamp # NoTimestamp =>
        \A i \in IndexedIn(directory) : \A j \in IndexedIn(directory) :
            \A k \in ClaimAliases(directory[i]) \cap ClaimAliases(directory[j]) :
                (i < j /\ j = Last(Derivers(directory, k))) =>
                    DictGet(_user_cache, k) = Strip(directory[j].gid)

\* Two members share the first name and the initial; the later one holds both keys
C8_Witness ==
    /\ call.ok
    /\ directory = <<UserAlBa, UserAlBo>>
    /\ DictGet(_user_cache, Str_al) = Str_1
    /\ DictGet(_user_cache, <<"a", "l", " ", "b">>) = Str_1
    /\ DictGet(_user_cache, Str_ax) = Str_1

\* C10 as stated: a reference that, lower-cased, is a key of the index is resolved to
\* the identifier the key maps to.
C10_ExactMatchAnyReference ==
    (call.op = "resolve" /\ DictHas(_user_cache, Lower(call.arg))) =>
        call.ret = DictGet(_user_cache, Lower(call.arg))

\* C10 amended: so it is for every reference that is not a digit string of more than
\* 10 characters (such a reference is returned as it is, whatever the index holds).
C10_ExactMatch ==
    (/\ call.op = "resolve"
     /\ ~(IsDigit(call.arg) /\ Len(call.arg) > 10)
     /\ DictHas(_user_cache, Lower(call.arg))) =>
        call.ret = DictGet(_user_cache, Lower(call.arg))

\* An upper-case full name resolved through the lower-case key
C10_Witness ==
    /\ call.op = "resolve" /\ call.arg = Str_ALBO
    /\ DictHas(_user_cache, Lower(Str_ALBO))
    /\ call.ret = Gid11

(* Properties of the task tools *)

\* C6: a reference of more than 10 characters, all digits, is returned as it is by
\* resolve_assignee and is used as the task identifier by the task-locating step;
\* neither fetches the directory or searches tasks, and the cached snapshot and its
\* timestamp stay as they are.
C6_GidReferencePassesThrough ==
    \A ref \in {r \in Assignees \cup TaskRefs \cup TaskAssignees :
                   (\A i \in 1..Len(r) : r[i] \in DigitChars) /\ Len(r) > 10} :
        /\ \A up \in Ups(directory) :
              LET r == ResolveAssignee(ref, _user_cache, _cache_timestamp, now, up)
              IN  /\ r.ret = ref
                  /\ r.up = NoUp
                  /\ r.cache = _user_cache /\ r.ts = _cache_timestamp
        /\ \A project \in Projects : \A answer \in Answers :
              LET loc == LocateTask(ref, project, answer)
              IN  /\ loc.result = "found" /\ loc.task_gid = ref
                  /\ ~loc.searched /\ loc.answer = NoAnswer
                  /\ \A other \in BOOLEAN : \A sendOk \in BOOLEAN : \A up \in Ups(directory) :
                        LET u == UpdateLocated(loc, ref, other,
                                     ResolveAssignee(ref, _user_cache,
                                                     _cache_timestamp, now, up),
                                     sendOk)
                        IN  /\ u.task.task_gid = ref /\ ~u.task.searched
                            /\ u.up = NoUp
                            /\ u.cache = _user_cache /\ u.ts = _cache_timestamp
        /\ (call.op = "update" /\ call.arg = ref) =>
              /\ call.task.result \in {"updated", "no_fields", "exception"}
              /\ call.task.task_gid = ref /\ ~call.task.searched
        /\ (call.op = "resolve" /\ call.arg = ref) =>
              call.ret = ref /\ call.me = "none" /\ call.fetch = "none"

\* An update by GID with a GID assignee, made while the snapshot is out of date:
\* nothing was searched or fetched
C6_Witness ==
    /\ call.op = "update" /\ call.arg = Gid11 /\ call.ret = Gid11
    /\ call.task.result = "updated" /\ call.task.task_gid = Gid11
    /\ ~call.task.searched /\ call.me = "none"
    /\ _user_cache # <<>>
    /\ now - _cache_timestamp >= _cache_duration

(* Properties of concurrent callers *)

\* C2: when callers run _fetch_workspace_users at the same time, each one that meets
\* no upstream failure receives the complete index of the fetched member list, never
\* an index another caller is still filling, and the cache ends up holding it.
C2_ConcurrentCallersSeeWholeIndex ==
    /\ \A c \in Callers :
          (procs[c].pc = "done" /\ ~procs[c].failed) =>
              procs[c].ret = CompleteIndex(directory)
    /\ ((\A c \in Callers : procs[c].pc = "done" /\ ~procs[c].failed)
           => _user_cache = CompleteIndex(directory))

(* Properties of the fuzzy match *)

\* The keys of the index that fuzzy matching looks at: those not mapped to themselves
EligibleKeys(cache) == {i \in 1..Len(cache) : cache[i][1] # cache[i][2]}

\* One of the two strings is a substring of the other
Related(a, b) == Contains(a, b) \/ Contains(b, a)

Shorter(a, b) == IF Len(a) <= Len(b) THEN Len(a) ELSE Len(b)
Longer(a, b) == IF Len(a) <= Len(b) THEN Len(b) ELSE Len(a)

\* The keys with a containment score above zero for the lower-cased reference a
Candidates(cache, a) ==
    {i \in EligibleKeys(cache) : Related(a, cache[i][1]) /\ Shorter(a, cache[i][1]) > 0}

NoBest == [match |-> None, num |-> 0, den |-> 1]

\* C11: for a reference without exact match, the identifier the fuzzy loop ends with
\* is mapped by a key of maximal containment score shorter/longer among the keys that
\* contain the reference or are contained in it; keys mapped to themselves take no
\* part; when no key scores above zero the loop ends with no candidate.
C11_BestIsMaximalScore ==
    \A assignee \in Assignees :
        LET a == Strip(Lower(assignee))
            best == FuzzyFrom(_user_cache, a, 1, NoBest)
            cands == Candidates(_user_cache, a)
        IN  ~DictHas(_user_cache, a) =>
                IF cands = {} THEN best.match = None
                ELSE \E i \in cands :
                        /\ best.match = _user_cache[i][2]
                        /\ best.num = Shorter(a, _user_cache[i][1])
                        /\ best.den = Longer(a, _user_cache[i][1])
                        /\ \A j \in cands :
                              Shorter(a, _user_cache[j][1]) * Longer(a, _user_cache[i][1])
                                  <= Shorter(a, _user_cache[i][1]) * Longer(a, _user_cache[j][1])

\* "l b" is in "al bo" (3/5) and in "al b" (3/4): the later, better key was taken
C11_Witness ==
    /\ call.op = "resolve" /\ call.arg = Str_lb
    /\ directory = <<UserAlBa, UserAlBo>>
    /\ Cardinality(Candidates(_user_cache, Str_lb)) >= 2
    /\ FuzzyFrom(_user_cache, Str_lb, 1, NoBest).num = 3
    /\ FuzzyFrom(_user_cache, Str_lb, 1, NoBest).den = 4
    /\ call.ret = Str_1

\* The keys whose containment score for a is above 0.3
AboveThreshold(cache, a) ==
    {i \in EligibleKeys(cache) :
        Related(a, cache[i][1]) /\ 10 * Shorter(a, cache[i][1]) > 3 * Longer(a, cache[i][1])}

\* C12: without exact match, resolve_assignee returns an identifier mapped by a key
\* scoring above 0.3 when there is such a key, and otherwise the reference exactly as
\* it was supplied.
C12_ThresholdOrOriginal ==
    (/\ call.op = "resolve" /\ call.consulted
     /\ ~DictHas(_user_cache, Strip(Lower(call.arg)))) =>
        IF AboveThreshold(_user_cache, Strip(Lower(call.arg))) = {}
        THEN call.ret = call.arg
        ELSE \E i \in AboveThreshold(_user_cache, Strip(Lower(call.arg))) :
                call.ret = _user_cache[i][2]

\* "a@x" is 3 of the 10 characters of the reference: the best score is 0.3 exactly
\* and the reference came back
C12_Witness ==
    /\ call.op = "resolve" /\ call.arg = Str_ax10 /\ call.ret = Str_ax10
    /\ DictHas(_user_cache, Str_ax)
    /\ FuzzyFrom(_user_cache, Lower(Str_ax10), 1, NoBest).num = 3
    /\ FuzzyFrom(_user_cache, Lower(Str_ax10), 1, NoBest).den = 10

\* C13: resolve_assignee ends with a value and not an error, for every reference
\* (empty, blank, unmatched) and whatever the directory fetch does (fails, serves an
\* empty or an out-of-date index); no score is computed with a zero divisor.
C13_ResolveNeverRaises ==
    /\ ~call.raised
    /\ \A assignee \in CacheAssignees \cup {Str_B, Str_ax10} :
          \A up \in UpsFor(_user_cache, _cache_timestamp, now) :
              LET r == ResolveAssignee(assignee, _user_cache, _cache_timestamp, now, up)
              IN  /\ ~r.raised
                  /\ r.ret # None
                  /\ ~MatchAssigneeRaises(assignee, r.cache)
                  /\ ~MatchAssigneeRaises(assignee, <<>>)

\* A blank reference was resolved while the fetch failed and an index of an earlier
\* refresh was served: it came back as it was
C13_Witness ==
    /\ call.op = "resolve" /\ call.arg = Str_blank
    /\ call.fetch = "raise" /\ ~call.ok
    /\ _user_cache # <<>>
    /\ call.ret = Str_blank

(* Properties of a directory with one member *)

UpperChar(c) ==
    IF \E i \in 1..Len(LowerChars) : LowerChars[i] = c
    THEN UpperChars[CHOOSE i \in 1..Len(LowerChars) : LowerChars[i] = c]
    ELSE c

Upper(s) == [i \in 1..Len(s) |-> UpperChar(s[i])]

\* The references a member is known by, in the letter case of the directory, in
\* lower case and in upper case
References(u) ==
    LET name == Strip(u.name)
        parts == Split(name)
        texts == {name, parts[1], parts[1] \o <<" ">> \o <<parts[Len(parts)][1]>>,
                  Strip(u.gid)}
                 \cup (IF Strip(u.email) = <<>> THEN {} ELSE {Strip(u.email)})
    IN  texts \cup {Lower(t) : t \in texts} \cup {Upper(t) : t \in texts}

TwoPartMember(u) == Indexed(u) /\ Len(Split(Strip(u.name))) >= 2

ResolveNow(ref) ==
    ResolveAssignee(ref, _user_cache, _cache_timestamp, now, UpUsers(directory))

\* C14 as stated: with one member whose name has two parts, the full name, the first
\* name, the first name with the last initial, the email and the identifier resolve to
\* the member's identifier, in any letter case.
C14_SingleMemberAnyAlias ==
    (Len(directory) = 1 /\ TwoPartMember(directory[1])) =>
        \A ref \in References(directory[1]) :
            ResolveNow(ref).ret = Strip(directory[1].gid)

\* C14 amended: so it is for each of these references that is not a digit string of
\* more than 10 characters; such a reference is returned as it is.
C14_SingleMemberAlias ==
    (Len(directory) = 1 /\ TwoPartMember(directory[1])) =>
        \A ref \in References(directory[1]) :
            IF LooksLikeGid(ref)
            THEN ResolveNow(ref).ret = ref
            ELSE ResolveNow(ref).ret = Strip(directory[1].gid)

\* The first name with the last initial, in mixed case, resolved to the one member
C14_Witness ==
    /\ call.op = "resolve" /\ call.arg = Str_AlB
    /\ directory = <<UserAlBo>>
    /\ Str_AlB \in References(directory[1])
    /\ call.ret = Str_1

(* Properties of the task-locating step *)

\* A task tool searched for its task and the search answered
Searched == call.op \in {"update", "create_subtask"} /\ call.task.search = "ok"

\* The title equals the reference, or one of the two contains the other, whatever the
\* letter case
Qualifies(title, reference) ==
    \/ Lower(title) = Lower(reference)
    \/ Contains(Lower(reference), Lower(title))
    \/ Contains(Lower(title), Lower(reference))

RECURSIVE QualifyingFrom(_, _, _)
QualifyingFrom(tasks, reference, i) ==
    IF i > Len(tasks) THEN <<>>
    ELSE (IF Qualifies(tasks[i].name, reference) THEN <<tasks[i]>> ELSE <<>>)
         \o QualifyingFrom(tasks, reference, i + 1)

\* C15: the match list holds, once each and in the order of the search result, exactly
\* the tasks whose title equals the reference, contains it or is contained in it,
\* compared without regard to letter case.
C15_MatchEitherContainment ==
    Searched =>
        MatchingTasks(call.task.tasks, call.arg) = QualifyingFrom(call.task.tasks, call.arg, 1)

\* C16: no match ends in "not found"; one match is the task the tool goes on with; more
\* than one ends in "ambiguous", listing the first matches in the order of the search
\* result, five at most. With the tasks "Write report" and "Write summary", "write" is
\* ambiguous with both and "Write report" is found.
C16_OutcomeByMatchCount ==
    Searched =>
        LET m == MatchingTasks(call.task.tasks, call.arg)
        IN  /\ m = <<>> => call.task.result = "not_found" /\ call.task.task_gid = <<>>
            /\ Len(m) = 1 =>
                  /\ call.task.result \in {"updated", "no_fields", "created", "exception"}
                  /\ call.task.task_gid = m[1].gid
            /\ Len(m) > 1 =>
                  /\ call.task.result = "ambiguous" /\ call.task.task_gid = <<>>
                  /\ Len(call.task.listed) <= 5
                  /\ Len(call.task.listed) = (IF Len(m) < 5 THEN Len(m) ELSE 5)
                  /\ \A k \in 1..Len(call.task.listed) : call.task.listed[k] = m[k]
            /\ (call.task.tasks = <<TaskWriteReport, TaskWriteSummary>>
                   /\ call.arg = Str_write) =>
                  /\ call.task.result = "ambiguous"
                  /\ call.task.listed = <<TaskWriteReport, TaskWriteSummary>>
            /\ (call.task.tasks = <<TaskWriteReport, TaskWriteSummary>>
                   /\ call.arg = Str_WriteReport) =>
                  call.task.task_gid = TaskWriteReport.gid
            /\ (call.task.result # "ambiguous") => call.task.listed = <<>>

\* Six of seven tasks matched: the first five matches were listed, the task that did
\* not match left out
C16_Witness ==
    /\ Searched /\ call.task.result = "ambiguous"
    /\ call.task.tasks = SevenTasks
    /\ Len(MatchingTasks(call.task.tasks, call.arg)) = 6
    /\ Len(call.task.listed) = 5
    /\ call.task.listed[2] = SevenTasks[3]

\* C17: when the workspace lookup or the task search fails, the tool ends in the
\* error outcome, which is none of found, not found and ambiguous; it acts on no task,
\* lists none, does not touch the directory and sends no update or creation.
C17_SearchFailureEndsCall ==
    (/\ call.op \in {"update", "create_subtask"}
     /\ (call.task.me = "raise" \/ call.task.search = "raise")) =>
        /\ call.task.result = "exception"
        /\ call.task.task_gid = <<>> /\ call.task.listed = <<>>
        /\ call.task.sent = 0
        /\ ~call.consulted /\ call.me = "none"

\* create_subtask met a failing search while an index was cached
C17_Witness ==
    /\ call.op = "create_subtask" /\ call.task.search = "raise"
    /\ call.task.searched
    /\ call.task.result = "exception" /\ call.task.sent = 0
    /\ _user_cache # <<>>

(* Properties of _parse_due_date *)

Parsed == call.op = "parse_due_date"

\* The current date and the date days later, as YYYY-MM-DD
DateAfter(days) == Strftime(FromOrdinal(Today(now) + days))

\* The text before the final "days"
DaysPrefix(s) == SubSeq(s, 1, Len(s) - 4)

\* C18: "today" and "now" give the current date, "tomorrow" the day after, and a text
\* ending in "days" whose prefix is an integer N the date N days from the current one,
\* in any letter case; a prefix that is not an integer leaves the text to the absolute
\* formats.
C18_RelativeDates ==
    Parsed =>
        LET lower == Lower(call.arg)
        IN  /\ lower \in {Str_today, Str_now} => ~call.raised /\ call.ret = DateAfter(0)
            /\ lower = Str_tomorrow => ~call.raised /\ call.ret = DateAfter(1)
            /\ (EndsWith(lower, Str_days) /\ IntLiteral(DaysPrefix(lower))) =>
                  ~call.raised /\ call.ret = DateAfter(IntValue(DaysPrefix(lower)))
            /\ (EndsWith(lower, Str_days) /\ ~IntLiteral(DaysPrefix(lower))) =>
                  ~call.raised /\ call.ret = ParseAbsoluteFrom(call.arg, 1).ret

\* The order of the formats: YYYY-MM-DD, MM/DD/YYYY, MM-DD-YYYY, DD/MM/YYYY, YYYY/MM/DD,
\* MM/DD/YY, MM-DD-YY
StatedOrder ==
    <<Format("-", <<"Y", "m", "d">>), Format("/", <<"m", "d", "Y">>),
      Format("-", <<"m", "d", "Y">>), Format("/", <<"d", "m", "Y">>),
      Format("/", <<"Y", "m", "d">>), Format("/", <<"m", "d", "y">>),
      Format("-", <<"m", "d", "y">>)>>

\* The text is a/b/yyyy with a and b of one or two digits
SlashDate(s) ==
    /\ Len(Pieces(s, "/")) = 3
    /\ \A i \in 1..3 : IsDigit(Pieces(s, "/")[i])
    /\ Len(Pieces(s, "/")[1]) <= 2 /\ Len(Pieces(s, "/")[2]) <= 2
    /\ Len(Pieces(s, "/")[3]) = 4

Number(s, i) == DigitsValue(Pieces(s, "/")[i], 0)

\* C19: the result is the date of the first format, in the stated order, that parses
\* the text. For a/b/yyyy, a is the month when a/b is a valid month and day, and a is
\* the day when a is above 12 and b/a is a valid month and day; "13/02/2024" and
\* "02/13/2024" both give "2024-02-13".
C19_FirstFormatWins ==
    (Parsed /\ ~call.raised) =>
        /\ \A i \in 1..Len(StatedOrder) :
              (/\ Strptime(call.arg, StatedOrder[i]) # NoDate
               /\ \A j \in 1..(i - 1) : Strptime(call.arg, StatedOrder[j]) = NoDate) =>
                  call.ret = Strftime(Strptime(call.arg, StatedOrder[i]))
        /\ SlashDate(call.arg) =>
              LET a == Number(call.arg, 1)
                  b == Number(call.arg, 2)
                  year == Number(call.arg, 3)
              IN  /\ ValidDate(year, a, b) =>
                        call.ret = Strftime([year |-> year, month |-> a, day |-> b])
                  /\ (a > 12 /\ ValidDate(year, b, a)) =>
                        call.ret = Strftime([year |-> year, month |-> b, day |-> a])
        /\ call.arg \in {<<"1", "3", "/", "0", "2", "/", "2", "0", "2", "4">>,
                         <<"0", "2", "/", "1", "3", "/", "2", "0", "2", "4">>} =>
              call.ret = <<"2", "0", "2", "4", "-", "0", "2", "-", "1", "3">>

\* "02/03/2024" reads as a date both ways and came back as February 3rd
C19_Witness ==
    /\ Parsed /\ call.arg = <<"0", "2", "/", "0", "3", "/", "2", "0", "2", "4">>
    /\ Strptime(call.arg, StatedOrder[2]) # NoDate
    /\ Strptime(call.arg, StatedOrder[4]) # NoDate
    /\ call.ret = <<"2", "0", "2", "4", "-", "0", "2", "-", "0", "3">>

\* The text is a date written YYYY-MM-DD
CanonicalDate(s) ==
    /\ Len(s) = 10 /\ s[5] = "-" /\ s[8] = "-"
    /\ IsDigit(SubSeq(s, 1, 4)) /\ IsDigit(SubSeq(s, 6, 7)) /\ IsDigit(SubSeq(s, 9, 10))
    /\ ValidDate(DigitsValue(SubSeq(s, 1, 4), 0), DigitsValue(SubSeq(s, 6, 7), 0),
                 DigitsValue(SubSeq(s, 9, 10), 0))

\* C20: for every text _parse_due_date ends with a string and not an error: a date
\* written YYYY-MM-DD, or the text as it was given; so also for "N days" with N so
\* large that the date N days away cannot be represented.
C20_NeverRaises ==
    Parsed =>
        /\ ~call.raised
        /\ call.ret = call.arg \/ CanonicalDate(call.ret)

\* The option of a field whose name equals the value when case is ignored
ExactOptions(field_options, value) ==
    {i \in 1..Len(field_options) : Lower(field_options[i][1]) = Lower(value)}

\* Some option name of the field contains the value or is contained in it
SomeOptionRelated(field_options, value) ==
    \E i \in 1..Len(field_options) :
        \/ Contains(Lower(value), Lower(field_options[i][1]))
        \/ Contains(Lower(field_options[i][1]), Lower(value))

FieldCall == call.op = "get_custom_field_value"

\* C21: for a configured field, a value that equals one of the field's option names
\* when case is ignored gives the GID of that very option, and a value that matches
\* no option name, exactly or by containment, is returned unchanged.
C21_ExactOptionWins ==
    (FieldCall /\ call.arg.field_name \in FieldNames) =>
        LET field_options == DictGet(asana_field_options, call.arg.field_name)
        IN  /\ \A i \in ExactOptions(field_options, call.arg.value) :
                  call.ret = field_options[i][2]
            /\ ~SomeOptionRelated(field_options, call.arg.value) =>
                  call.ret = call.arg.value

\* The candidate keys whose containment score for a is maximal
MaxScoreKeys(cache, a) ==
    {i \in Candidates(cache, a) :
        \A j \in Candidates(cache, a) :
            Shorter(a, cache[j][1]) * Longer(a, cache[i][1])
                <= Shorter(a, cache[i][1]) * Longer(a, cache[j][1])}

\* The earliest of a set of positions in the index
FirstKey(keys) == CHOOSE i \in keys : \A j \in keys : i <= j

FailedRefresh == call.me # "none" /\ ~call.ok

\* C23: a refresh that fails leaves the timestamp as it was; after a failed refresh
\* the next _fetch_workspace_users call goes upstream again, whatever time has passed
\* and however the directory has changed, and when the upstream then works it returns
\* the index built from the current member list.
C23_FailedRefreshIsRetried ==
    /\ \A up \in Ups(directory) :
          (FetchNow(up).up # NoUp /\ ~FetchNow(up).ok) =>
              FetchNow(up).ts = _cache_timestamp
    /\ FailedRefresh =>
          /\ \A up \in Ups(directory) : FetchNow(up).up = up
          /\ ~RebuildRaises(directory) =>
                FetchNow(UpUsers(directory)).ret = CompleteIndex(directory)

\* The reference is a direct identifier: digits only and more than 10 of them
DirectIdentifier(reference) ==
    Len(reference) > 10 /\ \A i \in 1..Len(reference) : reference[i] \in DigitChars

\* The outcomes of update_asana_task that are an error message
UpdateErrors == {"project_required", "not_found", "ambiguous", "exception", "no_fields"}

\* C24: one call of update_asana_task sends at most one update, and sends it only
\* when the reference is a direct identifier or the search gave exactly one matching
\* task, and a field to update was given; without project for a name reference, with
\* no or several matching tasks, with a failed search or without any field the call
\* ends in an error message and sends nothing.
C24_UpdateSentAtMostOnce ==
    call.op = "update" =>
        LET direct == DirectIdentifier(call.arg)
            found == call.task.search = "ok"
            m == MatchingTasks(call.task.tasks, call.arg)
        IN  /\ call.task.sent \in {0, 1}
            /\ call.task.sent = 1 =>
                  /\ direct \/ (found /\ Len(m) = 1)
                  /\ call.task.supplied
            /\ (\/ ~direct /\ call.task.project = <<>>
                \/ ~direct /\ found /\ Len(m) # 1
                \/ call.task.me = "raise" \/ call.task.search = "raise"
                \/ ~call.task.supplied) =>
                  call.task.sent = 0 /\ call.task.result \in UpdateErrors

\* An update by name: the search gave one matching task of two, a field was given
\* and the update was sent
C24_Witness ==
    /\ call.op = "update" /\ call.arg = Str_WriteReport
    /\ call.task.project = Str_P /\ call.task.supplied
    /\ call.task.tasks = <<TaskWriteReport, TaskWriteSummary>>
    /\ call.task.result = "updated" /\ call.task.sent = 1
    /\ call.task.task_gid = TaskWriteReport.gid

MultiCall == call.op = "create_multiple_subtasks"

\* The parent was resolved to one task: a direct identifier, or a search that worked
\* and gave exactly one matching task
ParentResolved ==
    \/ DirectIdentifier(call.arg)
    \/ /\ call.task.search = "ok"
       /\ Len(MatchingTasks(call.task.tasks, call.arg)) = 1

\* C25: create_multiple_subtasks goes through the parsed, non-empty names once each
\* and in list order, whichever of them fail; the counts it reports as created and
\* failed add up to the number of names; with an empty list or a parent that is not
\* resolved to exactly one task it attempts no creation.
C25_EveryNameAttemptedOnce ==
    MultiCall =>
        LET names == ParseSubtaskList(call.task.multi.subtask_list)
            multi == call.task.multi
        IN  /\ (names # <<>> /\ ParentResolved) =>
                  /\ call.task.result = "summary"
                  /\ multi.attempted = names
                  /\ multi.created + multi.failed = Len(names)
                  /\ multi.created <= Len(multi.sent) /\ Len(multi.sent) <= Len(names)
            /\ (names = <<>> \/ ~ParentResolved) =>
                  /\ call.task.result # "summary"
                  /\ multi.attempted = <<>> /\ multi.sent = <<>>
                  /\ multi.created = 0 /\ multi.failed = 0

\* Of three names the first failed and the two after it were created
C25_Witness ==
    /\ MultiCall /\ call.task.result = "summary"
    /\ call.task.multi.subtask_list = Chars("a,a,c")
    /\ call.task.multi.attempted = <<Chars("a"), Chars("a"), Chars("c")>>
    /\ call.task.multi.failed = 1 /\ call.task.multi.created = 2
    /\ Len(call.task.multi.sent) = 3

====
